---- MODULE Spec2Model ----
(***************************************************************************)
(* Model of the HQFBP sender (PDUGenerator) and receiver (Deframer).       *)
(*                                                                         *)
(* Byte strings are sequences of tokens [t |-> tag, v |-> value]:          *)
(*   "b"     one application byte, v its value                             *)
(*   "hdr"   the CBOR serialisation of a Header, v the header as a CBOR    *)
(*           decoder reads it back (one token stands for all its bytes)    *)
(*   "crc32" / "crc16"  a checksum trailer, v the bytes it was computed on *)
(*   "gz"    a gzip member, v the bytes it decompresses to                 *)
(*   "rq"    one serialised RaptorQ encoding packet (4 + mtu bytes), v the  *)
(*           tuple <<source object, mtu, encoding symbol id>>               *)
(*   "lt"    one LT packet (4 + mtu bytes), v a tuple of the same form      *)
(* Option<T> is a sequence of length 0 (None) or 1 (Some).                 *)
(* A ContentEncoding is a tuple whose first element names the variant.     *)
(***************************************************************************)
EXTENDS Integers, Sequences, FiniteSets, TLC

None == <<>>
Some(x) == <<x>>
IsSome(o) == Len(o) = 1
Unwrap(o) == o[1]
OrElse(o, alt) == IF IsSome(o) THEN o ELSE alt
UnwrapOr(o, d) == IF IsSome(o) THEN o[1] ELSE d

Min(a, b) == IF a < b THEN a ELSE b
Max(a, b) == IF a > b THEN a ELSE b

\* usize::div_ceil
DivCeil(a, b) == (a + b - 1) \div b

\* "let y = x; body": the value x is bound to the parameter of body
Let(x, body(_)) == body(x)

RECURSIVE Concat(_)
Concat(ss) == IF ss = <<>> THEN <<>> ELSE Head(ss) \o Concat(Tail(ss))

Reverse(s) == [i \in 1..Len(s) |-> s[Len(s) + 1 - i]]

Tok(t, v) == [t |-> t, v |-> v]
B(n) == Tok("b", n)

(* ---------------- lib.rs : ContentEncoding, EncodingList --------------- *)
H == <<"h">>
Identity == <<"identity">>
Gzip == <<"gzip">>
Crc16 == <<"crc16">>
Crc32 == <<"crc32">>
Chunk(n) == <<"chunk", n>>
Repeat(n) == <<"repeat", n>>
RaptorQ(len, mtu, rep) == <<"rq", len, mtu, rep>>
RaptorQDynamic(mtu, rep) == <<"rq_dyn", mtu, rep>>
RaptorQDynamicPercent(mtu, percent) == <<"rq_dyn_pct", mtu, percent>>
LT(len, mtu, rep) == <<"lt", len, mtu, rep>>
LTDynamic(mtu, rep) == <<"lt_dyn", mtu, rep>>

Deflate == <<"deflate">>
Brotli == <<"br">>
Lzma == <<"lzma">>
Ax25 == <<"ax.25">>
ReedSolomon(n, k) == <<"rs", n, k>>
Conv(k, rate) == <<"conv", k, rate>>
Scrambler(poly, seed) == <<"scr", poly, seed>>
Asm(w) == <<"asm", w>>
PostAsm(w) == <<"post_asm", w>>
OtherString(s) == <<"other_str", s>>
OtherInteger(i) == <<"other_int", i>>

IsChunk(e) == e[1] = "chunk"
IsH(e) == e[1] = "h"

\* The text of an entry: name alone for a bare word ("gzip", "127"), name and
\* args for the parameterized form name(args); the names rq_dyn, rq_dyn_pct
\* and lt_dyn stand for rq(dlen,..), rq(dlen,..%) and lt(dlen,..).
Text(name, args) == [name |-> name, args |-> args]

\* the CBOR data items of an encoding list
CborInt(i) == <<"int", i>>
CborStr(s) == <<"str", s>>

\* the code written for the variants that have none
NoId == 127

\* impl From<ContentEncoding> for i8
to_i8(e) ==
  CASE e = H -> -1
    [] e = Identity -> 0
    [] e = Gzip -> 1
    [] e = Deflate -> 2
    [] e = Brotli -> 3
    [] e = Lzma -> 4
    [] e = Crc16 -> 5
    [] e = Crc32 -> 6
    [] e = Asm(<<>>) -> 54
    [] e = PostAsm(<<>>) -> 56
    [] e = Ax25 -> 41
    [] e[1] = "other_int" -> e[2]
    [] OTHER -> NoId

\* impl Display for ContentEncoding
to_string(e) ==
  CASE e[1] = "other_str" -> Text(e[2], <<>>)
    [] e[1] = "other_int" -> Text(ToString(e[2]), <<>>)
    [] Len(e) = 1 -> Text(e[1], <<>>)
    [] OTHER -> Text(e[1], Tail(e))

\* impl TryFrom<&str> for ContentEncoding
try_from_str(s) ==
  IF s.args # <<>> THEN <<s.name>> \o s.args
  ELSE CASE s.name \in {"h", "-1"} -> H
         [] s.name \in {"identity", "0"} -> Identity
         [] s.name \in {"gzip", "1"} -> Gzip
         [] s.name \in {"deflate", "2"} -> Deflate
         [] s.name \in {"br", "3"} -> Brotli
         [] s.name \in {"lzma", "4"} -> Lzma
         [] s.name \in {"crc16", "5"} -> Crc16
         [] s.name \in {"crc32", "6"} -> Crc32
         [] s.name \in {"ax.25", "41"} -> Ax25
         [] OTHER -> OtherString(s.name)

\* impl TryFrom<i8> for ContentEncoding
try_from_i8(i) ==
  CASE i = -1 -> H
    [] i = 0 -> Identity
    [] i = 1 -> Gzip
    [] i = 2 -> Deflate
    [] i = 3 -> Brotli
    [] i = 4 -> Lzma
    [] i = 5 -> Crc16
    [] i = 6 -> Crc32
    [] i = 54 -> Asm(<<>>)
    [] i = 56 -> PostAsm(<<>>)
    [] i = 41 -> Ax25
    [] OTHER -> OtherInteger(i)

\* the item written for one entry inside an array, and for a lone entry that
\* is not an OtherString
item_of(e) == IF to_i8(e) # NoId THEN CborInt(to_i8(e)) ELSE CborStr(to_string(e))

\* <EncodingList as Encode>::encode: [array, items]; a lone item is written
\* bare, not as an array
EncodingList_encode(l) ==
  Let(SelectSeq(l, LAMBDA e : ~IsChunk(e)), LAMBDA filtered :
    IF Len(filtered) = 1
    THEN [array |-> FALSE,
          items |-> <<IF filtered[1][1] = "other_str"
                      THEN CborStr(Text(filtered[1][2], <<>>))
                      ELSE item_of(filtered[1])>>]
    ELSE IF filtered = <<>> THEN [array |-> FALSE, items |-> <<CborInt(0)>>]
    ELSE [array |-> TRUE, items |-> [i \in 1..Len(filtered) |-> item_of(filtered[i])]])

\* <EncodingList as Decode>::decode of what encode wrote
EncodingList_decode(w) ==
  [i \in 1..Len(w.items) |->
     IF w.items[i][1] = "int" THEN try_from_i8(w.items[i][2])
     ELSE try_from_str(w.items[i][2])]

\* EncodingList::encode followed by EncodingList::decode
EncodingListWire(l) == EncodingList_decode(EncodingList_encode(l))

(* ---------------- lib.rs : MediaType, Header --------------------------- *)
AnnType == "application/vnd.hqfbp+cbor"

\* coap_content_formats, restricted to the media types the model uses
get_coap_id(s) ==
  CASE s = "text/plain;charset=utf-8" -> Some(0)
    [] s = "application/cbor" -> Some(60)
    [] s = "application/json" -> Some(50)
    [] OTHER -> None

DefaultHeader ==
  [message_id |-> None, src_callsign |-> None, dst_callsign |-> None,
   content_format |-> None, content_type |-> None, content_encoding |-> None,
   repr_digest |-> None, content_digest |-> None, file_size |-> None,
   chunk_id |-> None, original_message_id |-> None, total_chunks |-> None,
   payload_size |-> None]

\* MediaType is <<"Format", id>> or <<"Type", string>>
media_type(h) ==
  IF IsSome(h.content_format) THEN Some(<<"Format", Unwrap(h.content_format)>>)
  ELSE IF IsSome(h.content_type) THEN Some(<<"Type", Unwrap(h.content_type)>>)
  ELSE None

canonicalize(m) ==
  IF m[1] = "Type" /\ IsSome(get_coap_id(m[2]))
  THEN <<"Format", Unwrap(get_coap_id(m[2]))>>
  ELSE m

set_media_type(h, mt) ==
  IF IsSome(mt)
  THEN Let(canonicalize(Unwrap(mt)), LAMBDA m :
         IF m[1] = "Format"
         THEN [h EXCEPT !.content_format = Some(m[2]), !.content_type = None]
         ELSE [h EXCEPT !.content_format = None, !.content_type = Some(m[2])])
  ELSE [h EXCEPT !.content_format = None, !.content_type = None]

is_ann(h) ==
  \/ media_type(h) = Some(<<"Type", AnnType>>)
  \/ media_type(h) = Some(<<"Format", 60>>)

\* a header whose chunking fields are kept
keep_chunking(h) == h

strip_chunking(h) ==
  [h EXCEPT !.message_id = None, !.chunk_id = None,
            !.original_message_id = None, !.total_chunks = None]

\* One merge_field! step: the field of self is filled from other when unset;
\* a consistent field set in both with different values is an error.
RECURSIVE merge_fields(_, _, _)
merge_fields(self, other, fields) ==
  IF fields = <<>> THEN [ok |-> TRUE, h |-> self]
  ELSE LET f == Head(fields)[1]
           consistent == Head(fields)[2]
       IN IF IsSome(other[f])
          THEN IF IsSome(self[f])
               THEN IF consistent /\ self[f] # other[f]
                    THEN [ok |-> FALSE, h |-> self]
                    ELSE merge_fields(self, other, Tail(fields))
               ELSE merge_fields([self EXCEPT ![f] = other[f]], other, Tail(fields))
          ELSE merge_fields(self, other, Tail(fields))

\* a merge in which every field must agree
MergeOrder_strict ==
  << <<"src_callsign", TRUE>>, <<"dst_callsign", TRUE>>,
     <<"content_format", TRUE>>, <<"content_type", TRUE>>,
     <<"content_encoding", TRUE>>, <<"repr_digest", TRUE>>,
     <<"content_digest", TRUE>>, <<"file_size", TRUE>>,
     <<"payload_size", TRUE>> >>

MergeOrder ==
  << <<"src_callsign", TRUE>>, <<"dst_callsign", FALSE>>,
     <<"content_format", FALSE>>, <<"content_type", FALSE>>,
     <<"content_encoding", FALSE>>, <<"repr_digest", TRUE>>,
     <<"content_digest", FALSE>>, <<"file_size", TRUE>>,
     <<"payload_size", FALSE>> >>

\* Header::merge: the header after the call (self is mutated in place, also
\* by the steps that ran before an error) and whether it returned Ok.
merge(self, other) == merge_fields(self, other, MergeOrder)

\* <Header as Encode>::encode then <Header as Decode>::decode
CborHeader(h) ==
  [h EXCEPT !.content_encoding =
      IF IsSome(h.content_encoding)
      THEN Some(EncodingListWire(Unwrap(h.content_encoding))) ELSE None]

HdrTok(h) == Tok("hdr", CborHeader(h))

Err == [ok |-> FALSE, panic |-> FALSE]

\* a pack that leaves the Payload-Size of the header as it was given
pack_keep_size(header, payload) ==
  Let(set_media_type(header, media_type(header)), LAMBDA h1 :
  Let(IF h1.content_format = Some(0) THEN [h1 EXCEPT !.content_format = None] ELSE h1, LAMBDA h2 :
    IF ~IsSome(h2.message_id) THEN Err
    ELSE [ok |-> TRUE, panic |-> FALSE, data |-> <<HdrTok(h2)>> \o payload]))

\* pack: Err when Message-Id is unset, else the header bytes then the payload
pack(header, payload) ==
  Let(set_media_type(header, media_type(header)), LAMBDA h1 :
  Let(IF h1.content_format = Some(0) THEN [h1 EXCEPT !.content_format = None] ELSE h1, LAMBDA h2 :
    IF ~IsSome(h2.message_id) THEN Err
    ELSE [ok |-> TRUE, panic |-> FALSE,
          data |-> <<HdrTok([h2 EXCEPT !.payload_size = Some(Len(payload))])>> \o payload]))

\* an unpack that accepts every header it can parse
unpack_lenient(data) ==
  IF data = <<>> \/ data[1].t # "hdr" THEN Err
  ELSE [ok |-> TRUE, panic |-> FALSE, h |-> data[1].v, p |-> Tail(data)]

\* unpack: the bytes must start with a CBOR map (a header token)
unpack(data) ==
  IF data = <<>> \/ data[1].t # "hdr" THEN Err
  ELSE LET header == data[1].v
       IN IF ~IsSome(header.message_id) /\ header.content_type # Some(AnnType)
          THEN Err
          ELSE [ok |-> TRUE, panic |-> FALSE, h |-> header, p |-> Tail(data)]

(* ---------------- codec.rs : the codec primitives ----------------------- *)
crc32_std(data) == Tok("crc32", data)
crc16_ccitt(data) == Tok("crc16", data)
gzip_compress(data) == <<Tok("gz", data)>>

Ok(data, q) == [ok |-> TRUE, panic |-> FALSE, data |-> data, q |-> q]

\* GzDecoder reads the first member and ignores what follows it
gzip_decompress(data) ==
  IF data # <<>> /\ data[1].t = "gz" THEN Ok(data[1].v, 0) ELSE Err

AllButLast(s) == SubSeq(s, 1, Len(s) - 1)

\* Vec::resize(n, 0)
Resize(data, n) == [i \in 1..n |-> IF i <= Len(data) THEN data[i] ELSE B(0)]

\* rq_encode: the object is data resized to original_count bytes; the packets
\* are its ceil(original_count / mtu) source symbols followed by repair_count
\* repair symbols, numbered from 0
rq_encode(data, original_count, mtu, repair_count) ==
  Let(Resize(data, original_count), LAMBDA padded :
    [i \in 1..(DivCeil(original_count, mtu) + repair_count) |->
       <<Tok("rq", <<padded, mtu, i - 1>>)>>])

\* lt_encode: nothing for an empty input, else the ceil(len / mtu) systematic
\* packets of data followed by repair_count others
lt_encode(data, original_count, mtu, repair_count) ==
  IF mtu = 0 \/ original_count = 0 \/ data = <<>> THEN <<>>
  ELSE [i \in 1..(DivCeil(Len(data), mtu) + repair_count) |->
          <<Tok("lt", <<data, mtu, i - 1>>)>>]

\* The number of symbols beyond ceil(len / mtu) that the RaptorQ decoder
\* needs when a source symbol is missing: decoding from exactly that many
\* symbols is not certain once repair symbols are involved.
VARIABLE rq_overhead

\* the packets rq_decode hands to the decoder: at least 4 + mtu bytes long,
\* cut to that length; only packets of an object of original_count bytes
\* with symbols of mtu bytes are modelled as contributing
RqUsable(packets, original_count, mtu) ==
  {i \in 1..Len(packets) :
     /\ packets[i] # <<>>
     /\ packets[i][1].t = "rq"
     /\ packets[i][1].v[2] = mtu
     /\ Len(packets[i][1].v[1]) = original_count}

\* rq_decode: the object, once the decoder was given enough symbols
rq_decode(packets, original_count, mtu) ==
  Let(RqUsable(packets, original_count, mtu), LAMBDA usable :
  Let({packets[i][1].v[3] : i \in usable}, LAMBDA esis :
    IF \/ (usable # {} /\ (0..(DivCeil(original_count, mtu) - 1)) \subseteq esis)
       \/ (usable # {} /\ Cardinality(esis) >= DivCeil(original_count, mtu) + rq_overhead)
    THEN Ok(packets[CHOOSE i \in usable : TRUE][1].v[1], 10)
    ELSE Err))

(* ---------------- deframer.rs ------------------------------------------ *)
\* position of the first H of encs, 0 when there is none
HPos(encs) ==
  IF \E i \in 1..Len(encs) : IsH(encs[i])
  THEN CHOOSE i \in 1..Len(encs) : IsH(encs[i]) /\ \A j \in 1..(i - 1) : ~IsH(encs[j])
  ELSE 0

split_encs(encs) ==
  Let(HPos(encs), LAMBDA pos :
    IF pos # 0
    THEN [pre |-> SubSeq(encs, 1, pos - 1), post |-> SubSeq(encs, pos + 1, Len(encs)), has_h |-> TRUE]
    ELSE [pre |-> encs, post |-> <<>>, has_h |-> FALSE])

ce_list_of(h) == UnwrapOr(h.content_encoding, <<>>)

strip_post_h_encodings(h) ==
  IF IsSome(h.content_encoding) /\ HPos(Unwrap(h.content_encoding)) # 0
  THEN Let(split_encs(Unwrap(h.content_encoding)).pre, LAMBDA pre :
         [h EXCEPT !.content_encoding = IF pre = <<>> THEN None ELSE Some(pre)])
  ELSE h

\* one arm of the match in apply_decodings
decode_one(data, enc) ==
  CASE enc[1] = "gzip" -> gzip_decompress(data)
    [] enc[1] = "crc32" ->
         IF Len(data) < 1 THEN Err
         ELSE IF crc32_std(AllButLast(data)) # data[Len(data)] THEN Err
         ELSE Ok(AllButLast(data), 1000)
    [] enc[1] = "crc16" ->
         IF Len(data) < 1 THEN Err
         ELSE IF crc16_ccitt(AllButLast(data)) # data[Len(data)] THEN Err
         ELSE Ok(AllButLast(data), 1000)
    [] enc[1] = "rq" -> rq_decode(<<data>>, enc[2], enc[3])
    [] OTHER -> Ok(data, 0)

\* apply_decodings: the encodings are undone from the last to the first
RECURSIVE apply_decodings(_, _)
apply_decodings(data, encodings) ==
  IF encodings = <<>> THEN Ok(data, 0)
  ELSE Let(decode_one(data, encodings[Len(encodings)]), LAMBDA r :
         IF ~r.ok THEN r
         ELSE Let(apply_decodings(r.data, AllButLast(encodings)), LAMBDA rest :
                IF ~rest.ok THEN rest ELSE Ok(rest.data, r.q + rest.q)))

\* Iterator::step_by(count) on a list
StepBy(l, count) ==
  [i \in 1..((Len(l) + count - 1) \div count) |-> l[(i - 1) * count + 1]]

\* the "other" arm of apply_decodings_multi on a list of several items:
\* items that fail to decode are dropped
RECURSIVE decode_each(_, _)
decode_each(items, enc) ==
  IF items = <<>> THEN [items |-> <<>>, q |-> 0]
  ELSE Let(apply_decodings(Head(items), <<enc>>), LAMBDA r :
       Let(decode_each(Tail(items), enc), LAMBDA rest :
         IF r.ok THEN [items |-> <<r.data>> \o rest.items, q |-> r.q + rest.q]
         ELSE rest))

\* one step of the loop of apply_decodings_multi, for the encoding enc
multi_step(current, enc) ==
  CASE enc[1] \in {"h", "chunk"} ->
         [ok |-> TRUE, panic |-> FALSE, items |-> <<Concat(current)>>, q |-> 0]
    [] enc[1] = "identity" ->
         [ok |-> TRUE, panic |-> FALSE, items |-> current, q |-> 0]
    [] enc[1] = "repeat" ->
         IF Len(current) > 1
         THEN IF enc[2] = 0 THEN [ok |-> FALSE, panic |-> TRUE]
              ELSE [ok |-> TRUE, panic |-> FALSE, items |-> StepBy(current, enc[2]), q |-> 0]
         ELSE [ok |-> TRUE, panic |-> FALSE, items |-> current, q |-> 0]
    [] enc[1] = "rq" ->
         Let(rq_decode(current, enc[2], enc[3]), LAMBDA r :
           IF r.ok
           THEN [ok |-> TRUE, panic |-> FALSE, items |-> <<r.data>>, q |-> 10]
           ELSE [ok |-> FALSE, panic |-> FALSE])
    [] OTHER ->
         IF Len(current) = 1
         THEN Let(apply_decodings(current[1], <<enc>>), LAMBDA r :
                IF r.ok
                THEN [ok |-> TRUE, panic |-> FALSE, items |-> <<r.data>>, q |-> r.q]
                ELSE [ok |-> FALSE, panic |-> r.panic])
         ELSE Let(decode_each(current, enc), LAMBDA r :
                [ok |-> TRUE, panic |-> FALSE, items |-> r.items, q |-> r.q])

\* the loop of apply_decodings_multi; the result is a list of items
RECURSIVE multi_loop(_, _)
multi_loop(current, encs) ==
  IF encs = <<>> THEN [ok |-> TRUE, panic |-> FALSE, items |-> current, q |-> 0]
  ELSE Let(multi_step(current, encs[Len(encs)]), LAMBDA step :
         IF ~step.ok THEN step
         ELSE Let(multi_loop(step.items, AllButLast(encs)), LAMBDA rest :
                IF ~rest.ok THEN rest
                ELSE [ok |-> TRUE, panic |-> FALSE, items |-> rest.items, q |-> step.q + rest.q]))

apply_decodings_multi(input, encs) ==
  Let(multi_loop(input, encs), LAMBDA r :
    IF ~r.ok THEN [ok |-> FALSE, panic |-> r.panic]
    ELSE IF Concat(r.items) = <<>> THEN Err
    ELSE Ok(Concat(r.items), r.q))

IsSplitting(e) == e[1] \in {"chunk", "repeat", "rq", "rs"}

\* Last Splitting Index: 1-based position of the last chunk/repeat/rq/rs
\* entry of pre, 0 when there is none (the code's -1)
Lsi(pre) ==
  IF \E i \in 1..Len(pre) : IsSplitting(pre[i])
  THEN CHOOSE i \in 1..Len(pre) : IsSplitting(pre[i]) /\ \A j \in (i + 1)..Len(pre) : ~IsSplitting(pre[j])
  ELSE 0

apply_pdu_level_decodings(header, payload) ==
  Let(split_encs(ce_list_of(header)).pre, LAMBDA pre :
  Let(IF IsSome(header.payload_size) /\ Len(payload) > Unwrap(header.payload_size)
      THEN SubSeq(payload, 1, Unwrap(header.payload_size)) ELSE payload, LAMBDA current_payload :
  Let(UnwrapOr(header.total_chunks, 1) > 1 \/ UnwrapOr(header.chunk_id, 0) > 0, LAMBDA is_fragmented :
  Let(Lsi(pre), LAMBDA lsi0 :
  \* "lsi = pre.len()" of the implicit-fragmentation case leaves nothing to apply
  Let(IF lsi0 # 0 THEN SubSeq(pre, lsi0 + 1, Len(pre))
      ELSE IF is_fragmented /\ pre # <<>> THEN <<>>
      ELSE pre, LAMBDA to_apply :
    IF to_apply # <<>>
    THEN apply_decodings(current_payload, Reverse(to_apply))
    ELSE Ok(current_payload, 0))))))

\* ---- Deframer state: a record d with the fields of struct Deframer, plus
\* panicked (the call unwound) and processed, a history of the process_pdu
\* calls of the current receive_bytes call (read by the properties only) ----
Deframer_new ==
  [events |-> <<>>, sessions |-> <<>>, announcements |-> <<>>,
   not_yet_decoded |-> <<>>, panicked |-> FALSE, processed |-> <<>>]

\* events.push_front, which would deliver the newest event first
push_front(events, ev) == <<ev>> \o events

\* events.push_back
push_back(events, ev) == Append(events, ev)

\* the history entry of one process_pdu call
Note(d, is_a, key, chunk_id, q, payload, stored, complete) ==
  [d EXCEPT !.processed = Append(d.processed,
     [is_ann |-> is_a, key |-> key, chunk_id |-> chunk_id, q |-> q,
      payload |-> payload, stored |-> stored, complete |-> complete])]

PDUEvent(h, p) == [kind |-> "PDU", header |-> h, payload |-> p]
MessageEvent(h, p) == [kind |-> "Message", header |-> h, payload |-> p]

MapPut(m, k, v) == [x \in DOMAIN m \cup {k} |-> IF x = k THEN v ELSE m[x]]
MapRemove(m, k) == [x \in DOMAIN m \ {k} |-> m[x]]

\* the chunk ids in descending order
RECURSIVE SortedSeq_desc(_)
SortedSeq_desc(S) ==
  IF S = {} THEN <<>>
  ELSE LET m == CHOOSE x \in S : \A y \in S : x >= y
       IN <<m>> \o SortedSeq_desc(S \ {m})

\* the Chunk-Ids of a session in ascending order (sorted_keys.sort())
RECURSIVE SortedSeq(_)
SortedSeq(S) ==
  IF S = {} THEN <<>>
  ELSE LET m == CHOOSE x \in S : \A y \in S : x <= y
       IN <<m>> \o SortedSeq(S \ {m})

\* an announcement handler that records nothing
ignore_announcement(d, src, payload) == d

handle_announcement(d, src, payload) ==
  IF payload # <<>> /\ payload[1].t = "hdr"
     /\ IsSome(payload[1].v.message_id) /\ IsSome(payload[1].v.content_encoding)
  THEN [d EXCEPT !.announcements =
          MapPut(d.announcements, <<src, Unwrap(payload[1].v.message_id)>>,
                 Unwrap(payload[1].v.content_encoding))]
  ELSE d

RECURSIVE merge_all(_, _)
merge_all(merged, hs) ==
  IF hs = <<>> THEN merged
  ELSE merge_all(merge(merged, Head(hs)).h, Tail(hs))

\* step 4 of complete_message: keep only what follows the first H
after_h(ce) ==
  Let(SelectSeq(split_encs(ce).post, LAMBDA e : ~IsH(e)), LAMBDA kept :
    IF ~split_encs(ce).has_h \/ kept = <<>> THEN None ELSE Some(kept))

\* the list complete_message passes to apply_decodings_multi
pre_fixed_of(pre, segments) ==
  IF ~(\E i \in 1..Len(pre) : IsSplitting(pre[i])) /\ segments # <<>>
  \* is_frag is computed after strip_chunking, and so is false
  THEN IF Len(segments) = 1 THEN <<>> ELSE pre \o <<Chunk(0)>>
  ELSE IF Lsi(pre) # 0 THEN SubSeq(pre, 1, Lsi(pre))
  ELSE IF Len(segments) = 1 THEN <<>> ELSE pre

\* steps 3 and 4 of complete_message, and the Message event
emit_message(d1, merged1, data1) ==
  [d1 EXCEPT
     !.events = push_back(d1.events, MessageEvent(
       IF IsSome(merged1.content_encoding)
       THEN [merged1 EXCEPT !.content_encoding = after_h(Unwrap(merged1.content_encoding))]
       ELSE merged1,
       IF IsSome(merged1.file_size) /\ Len(data1) > Unwrap(merged1.file_size)
       THEN SubSeq(data1, 1, Unwrap(merged1.file_size)) ELSE data1)),
     !.not_yet_decoded = <<>>]

\* step 2 of complete_message: a reassembled PDU is unwrapped
unwrap_nested(d1, merged0, data) ==
  Let(unpack(data), LAMBDA u :
  Let(IF u.ok /\ IsSome(u.h.message_id)
      THEN apply_decodings(u.p, split_encs(ce_list_of(u.h)).pre)
      ELSE Err, LAMBDA inner :
    IF inner.ok THEN emit_message(d1, u.h, inner.data)
    ELSE emit_message(d1, merged0, data)))

\* a reassembly that keeps the session when the decoding fails
complete_message_keeps_failed(d, key) ==
  IF key \notin DOMAIN d.sessions THEN d
  ELSE
  Let(d.sessions[key], LAMBDA session :
  Let(strip_chunking(merge_all(session.headers[1], Tail(session.headers))), LAMBDA merged0 :
  Let(SortedSeq(DOMAIN session.chunks), LAMBDA sorted_keys :
  Let([i \in 1..Len(sorted_keys) |-> session.chunks[sorted_keys[i]].p], LAMBDA segments :
  Let(apply_decodings_multi(segments,
        pre_fixed_of(split_encs(ce_list_of(merged0)).pre, segments)), LAMBDA r :
    IF ~r.ok
    THEN IF r.panic THEN [d EXCEPT !.panicked = TRUE] ELSE d
    ELSE unwrap_nested([d EXCEPT !.sessions = MapRemove(d.sessions, key)],
                       merged0, r.data))))))

complete_message(d, key) ==
  IF key \notin DOMAIN d.sessions THEN d
  ELSE
  Let(d.sessions[key], LAMBDA session :
  Let([d EXCEPT !.sessions = MapRemove(d.sessions, key)], LAMBDA d1 :
  Let(strip_chunking(merge_all(session.headers[1], Tail(session.headers))), LAMBDA merged0 :
  Let(SortedSeq(DOMAIN session.chunks), LAMBDA sorted_keys :
  Let([i \in 1..Len(sorted_keys) |-> session.chunks[sorted_keys[i]].p], LAMBDA segments :
  Let(apply_decodings_multi(segments,
        pre_fixed_of(split_encs(ce_list_of(merged0)).pre, segments)), LAMBDA r :
    IF ~r.ok
    THEN IF r.panic THEN [d1 EXCEPT !.panicked = TRUE] ELSE d1
    ELSE unwrap_nested(d1, merged0, r.data)))))))

\* ceil(len / mtu) of the first rq(len, mtu, _) found in the pre-boundary
\* encodings of the recorded headers; None when there is none
RqIn(h) ==
  {i \in 1..Len(split_encs(ce_list_of(h)).pre) : split_encs(ce_list_of(h)).pre[i][1] = "rq"}

\* a receiver without early reassembly: no RaptorQ threshold is found
rq_k_none(headers) == None

rq_k_of(headers) ==
  Let({j \in 1..Len(headers) : RqIn(headers[j]) # {}}, LAMBDA has :
    IF has = {} THEN None
    ELSE Let(CHOOSE x \in has : \A y \in has : x <= y, LAMBDA j :
         Let(CHOOSE x \in RqIn(headers[j]) : \A y \in RqIn(headers[j]) : x <= y, LAMBDA i :
         Let(split_encs(ce_list_of(headers[j])).pre[i], LAMBDA rq :
           Some(<<rq[2], rq[3]>>)))))

\* a session key that ignores the Src-Callsign
session_key_no_src(src, orig) == <<None, orig>>

\* the session key (header.src_callsign.clone(), orig_id)
session_key_of(src, orig) == <<src, orig>>

\* the test "session.chunks.len() as u32 == session.total_chunks"
reached_total(session) == Cardinality(DOMAIN session.chunks) = session.total_chunks

\* a replacement test that also replaces on equal quality
replaces_on_equal(session, chunk_id, pdu_quality) ==
  chunk_id \notin DOMAIN session.chunks \/ pdu_quality >= session.chunks[chunk_id].q

\* the test "existing.is_none() || pdu_quality > existing.unwrap().1"
replaces(session, chunk_id, pdu_quality) ==
  chunk_id \notin DOMAIN session.chunks \/ pdu_quality > session.chunks[chunk_id].q

\* process_pdu once the fragment was stored (or not): s0 is the session
\* before, s1 the session after
process_stored(d1, session_key, chunk_id, payload, pdu_quality, s0, s1) ==
  Let(rq_k_of(s1.headers), LAMBDA rq :
  Let(IF reached_total(s1) THEN TRUE
      ELSE IF IsSome(rq) /\ Unwrap(rq)[2] # 0
      THEN Cardinality(DOMAIN s1.chunks) >= DivCeil(Unwrap(rq)[1], Unwrap(rq)[2])
      ELSE FALSE, LAMBDA completed :
  Let(Note([d1 EXCEPT !.sessions = MapPut(d1.sessions, session_key, s1)],
           FALSE, session_key, chunk_id, pdu_quality, payload,
           replaces(s0, chunk_id, pdu_quality), completed), LAMBDA d2 :
    IF ~reached_total(s1) /\ IsSome(rq) /\ Unwrap(rq)[2] = 0
    THEN [d2 EXCEPT !.panicked = TRUE]
    ELSE IF completed THEN complete_message(d2, session_key) ELSE d2)))

\* process_pdu on a data PDU, after the PDU event was pushed
process_data(d1, header, payload, pdu_quality, session_key, chunk_id) ==
  Let(IF session_key \in DOMAIN d1.sessions THEN d1.sessions[session_key]
      ELSE [chunks |-> <<>>, headers |-> <<>>,
            total_chunks |-> UnwrapOr(header.total_chunks, 1)], LAMBDA s0 :
    process_stored(d1, session_key, chunk_id, payload, pdu_quality, s0,
      IF replaces(s0, chunk_id, pdu_quality)
      THEN [s0 EXCEPT !.chunks = MapPut(s0.chunks, chunk_id, [p |-> payload, q |-> pdu_quality]),
                      !.headers = Append(s0.headers, header)]
      ELSE s0))

\* the payload handle_announcement is given
announcement_payload(header, payload) ==
  Let(split_encs(ce_list_of(header)), LAMBDA sp :
  Let(apply_decodings(payload, sp.pre), LAMBDA r :
    IF IsSome(header.content_encoding) /\ sp.has_h /\ r.ok THEN r.data ELSE payload))

process_pdu(d, header, payload, pdu_quality) ==
  IF is_ann(header)
  THEN Let(announcement_payload(header, payload), LAMBDA a_payload :
         handle_announcement(
           Note(d, TRUE, <<header.src_callsign, 0>>, 0, pdu_quality, a_payload, FALSE, FALSE),
           header.src_callsign, a_payload))
  ELSE
  Let(OrElse(header.original_message_id, header.message_id), LAMBDA orig :
    IF ~IsSome(orig)
    THEN [d EXCEPT !.events = push_back(d.events, PDUEvent(header, payload)),
                   !.panicked = TRUE]
    ELSE process_data([d EXCEPT !.events = push_back(d.events, PDUEvent(header, payload))],
                      header, payload, pdu_quality,
                      session_key_of(header.src_callsign, Unwrap(orig)),
                      UnwrapOr(header.chunk_id, 0)))

\* the result of unpack + strip_post_h_encodings + apply_pdu_level_decodings
\* on a cleaned PDU: the candidate (header, payload, quality gain)
candidate(clean_pdu) ==
  Let(unpack(clean_pdu), LAMBDA u :
    IF ~u.ok THEN [ok |-> FALSE]
    ELSE Let(strip_post_h_encodings(u.h), LAMBDA h2 :
         Let(apply_pdu_level_decodings(h2, u.p), LAMBDA r3 :
           IF ~r3.ok THEN [ok |-> FALSE]
           ELSE [ok |-> TRUE, h |-> h2, p |-> r3.data, q |-> r3.q])))

\* an encoding list for Phase 1 that prefers the header's own to the
\* announced one
known_encodings_own_first(d, h_peek) ==
  Let(OrElse(h_peek.original_message_id, h_peek.message_id), LAMBDA target_id :
  Let(<<h_peek.src_callsign, UnwrapOr(target_id, 0)>>, LAMBDA akey :
    IF IsSome(h_peek.content_encoding) THEN h_peek.content_encoding
    ELSE IF IsSome(target_id) /\ akey \in DOMAIN d.announcements
    THEN Some(d.announcements[akey])
    ELSE None))

\* Phase 1 of receive_bytes: Some(<<header, payload, quality>>) or None
\* the encoding list Phase 1 decodes with: the announced one, else the header's
known_encodings(d, h_peek) ==
  Let(OrElse(h_peek.original_message_id, h_peek.message_id), LAMBDA target_id :
  Let(<<h_peek.src_callsign, UnwrapOr(target_id, 0)>>, LAMBDA akey :
    IF IsSome(target_id) /\ akey \in DOMAIN d.announcements
    THEN Some(d.announcements[akey])
    ELSE h_peek.content_encoding))

phase1(d, b_data) ==
  Let(unpack(b_data), LAMBDA peek :
    IF ~peek.ok THEN None
    ELSE
    Let(known_encodings(d, peek.h), LAMBDA ce_list :
      IF IsSome(ce_list)
      THEN Let(apply_decodings(b_data, split_encs(Unwrap(ce_list)).post), LAMBDA r :
           Let(IF r.ok THEN candidate(r.data) ELSE [ok |-> FALSE], LAMBDA c :
             IF c.ok THEN Some(<<c.h, c.p, r.q + c.q>>) ELSE None))
      ELSE Some(<<peek.h, peek.p, 0>>)))

already_had_better(d, h2, new_quality) ==
  Let(<<h2.src_callsign, UnwrapOr(OrElse(h2.original_message_id, h2.message_id), 0)>>, LAMBDA session_key :
  Let(UnwrapOr(h2.chunk_id, 0), LAMBDA chunk_id :
    /\ session_key \in DOMAIN d.sessions
    /\ chunk_id \in DOMAIN d.sessions[session_key].chunks
    /\ d.sessions[session_key].chunks[chunk_id].q >= new_quality))

has_combiner(post) ==
  \E i \in 1..Len(post) : post[i][1] \in {"rq", "rq_dyn", "chunk", "repeat", "h"}

\* the loop of Phase 2 over the announcement keys, in the order the HashMap
\* yields them; st = [d, reclaimed_any]
RECURSIVE phase2_loop(_, _, _)
\* the candidate Phase 2 obtains from a list of packets under post
phase2_candidate(try_list, post) ==
  Let(apply_decodings_multi(try_list, post), LAMBDA r :
  Let(IF r.ok THEN candidate(r.data) ELSE [ok |-> FALSE], LAMBDA c :
    IF c.ok THEN [ok |-> TRUE, panic |-> FALSE, h |-> c.h, p |-> c.p, q |-> r.q + c.q]
    ELSE [ok |-> FALSE, panic |-> r.panic]))

\* 2b of Phase 2, the group of held packets and the current one: the next
\* value of st
phase2_group(st, c2) ==
  IF c2.panic THEN [st EXCEPT !.d.panicked = TRUE]
  ELSE IF ~c2.ok THEN st
  ELSE Let(process_pdu(st.d, c2.h, c2.p, c2.q), LAMBDA dp :
         [d |-> IF ~already_had_better(st.d, c2.h, c2.q) /\ ~dp.panicked
                THEN [dp EXCEPT !.not_yet_decoded = <<>>] ELSE dp,
          reclaimed_any |-> TRUE])

phase2_loop(st, keys, b_data) ==
  IF keys = <<>> \/ st.d.panicked THEN st
  ELSE
  Let(split_encs(st.d.announcements[Head(keys)]).post, LAMBDA post :
  \* 2a: just the current packet
  Let(phase2_candidate(<<b_data>>, post), LAMBDA c1 :
    IF c1.panic THEN [st EXCEPT !.d.panicked = TRUE]
    ELSE IF c1.ok /\ ~already_had_better(st.d, c1.h, c1.q)
    THEN phase2_loop([d |-> process_pdu(st.d, c1.h, c1.p, c1.q), reclaimed_any |-> TRUE],
                     Tail(keys), b_data)
    ELSE IF ~has_combiner(post) THEN phase2_loop(st, Tail(keys), b_data)
    ELSE
    Let(phase2_group(st, phase2_candidate(Append(st.d.not_yet_decoded, b_data), post)), LAMBDA st2 :
      IF st2.reclaimed_any \/ st2.d.panicked THEN st2
      ELSE phase2_loop(st2, Tail(keys), b_data))))

\* a receive_bytes that holds the packet whatever Phase 2 reclaimed
receive_bytes_holds_all(d, b_data, ann_keys) ==
  Let(phase1(d, b_data), LAMBDA p1 :
    IF IsSome(p1)
    THEN process_pdu(d, Unwrap(p1)[1], Unwrap(p1)[2], Unwrap(p1)[3])
    ELSE Let(phase2_loop([d |-> d, reclaimed_any |-> FALSE], ann_keys, b_data), LAMBDA st :
           IF ~st.d.panicked
           THEN [st.d EXCEPT !.not_yet_decoded = Append(st.d.not_yet_decoded, b_data)]
           ELSE st.d))

\* receive_bytes; ann_keys is the order in which announcements.keys() yields
\* the keys of the announcement table
receive_bytes(d, b_data, ann_keys) ==
  Let(phase1(d, b_data), LAMBDA p1 :
    IF IsSome(p1)
    THEN process_pdu(d, Unwrap(p1)[1], Unwrap(p1)[2], Unwrap(p1)[3])
    ELSE Let(phase2_loop([d |-> d, reclaimed_any |-> FALSE], ann_keys, b_data), LAMBDA st :
           IF ~st.reclaimed_any /\ ~st.d.panicked
           THEN [st.d EXCEPT !.not_yet_decoded = Append(st.d.not_yet_decoded, b_data)]
           ELSE st.d))

(* ---------------- generator.rs ----------------------------------------- *)
\* A PDUGenerator g is [src_callsign, dst_callsign, max_payload_size,
\* encodings, announcement (Option of the announcement encoder's encodings),
\* next_msg_id].
PDUGenerator_new(src, dst, max_payload_size, encodings, announcement_encodings, initial_msg_id) ==
  [src_callsign |-> src, dst_callsign |-> dst, max_payload_size |-> max_payload_size,
   encodings |-> UnwrapOr(encodings, <<>>), announcement |-> announcement_encodings,
   next_msg_id |-> initial_msg_id]

\* insert x before position i (1-based) of s
InsertBefore(s, i, x) == SubSeq(s, 1, i - 1) \o <<x>> \o SubSeq(s, i, Len(s))

\* a normalisation that puts the synthetic chunk after the boundary
chunk_after_h(g, encs) ==
  IF ~(\E i \in 1..(HPos(encs) - 1) : IsChunk(encs[i])) /\ IsSome(g.max_payload_size)
  THEN InsertBefore(encs, HPos(encs) + 1, Chunk(Unwrap(g.max_payload_size)))
  ELSE encs

\* resolve_encodings once H was appended when missing
resolve_chunk(g, encs) ==
  IF ~(\E i \in 1..(HPos(encs) - 1) : IsChunk(encs[i])) /\ IsSome(g.max_payload_size)
  THEN InsertBefore(encs, HPos(encs), Chunk(Unwrap(g.max_payload_size)))
  ELSE encs

resolve_encodings(g) ==
  resolve_chunk(g, IF HPos(g.encodings) = 0 THEN Append(g.encodings, H) ELSE g.encodings)

\* apply_encodings for a single encoding: the list of fragments it yields
apply_encodings(data, enc) ==
  CASE enc[1] = "gzip" -> <<gzip_compress(data)>>
    [] enc[1] = "crc16" -> <<Append(data, crc16_ccitt(data))>>
    [] enc[1] = "crc32" -> <<Append(data, crc32_std(data))>>
    [] enc[1] = "rq" -> rq_encode(data, enc[2], enc[3], enc[4])
    [] enc[1] = "rq_dyn" -> rq_encode(data, Len(data), enc[2], enc[3])
    [] enc[1] = "rq_dyn_pct" ->
         rq_encode(data, Len(data), enc[2],
                   Max(1, DivCeil(Len(data) * enc[3], 100 * enc[2])))
    [] enc[1] = "lt" -> lt_encode(data, enc[2], enc[3], enc[4])
    [] enc[1] = "lt_dyn" -> lt_encode(data, Len(data), enc[2], enc[3])
    [] OTHER -> <<data>>

\* the entry the loop of generate puts in place of a dynamic entry for the
\* fragment c
resolve_dynamic(enc, c) ==
  CASE enc[1] = "rq_dyn" -> RaptorQ(Len(c), enc[2], enc[3])
    [] enc[1] = "lt_dyn" -> LT(Len(c), enc[2], enc[3])
    [] OTHER -> enc

\* "full_encs[i] = actual_enc.clone()", run for every fragment of chunks in
\* turn: the entry i is left as resolved for the last fragment
rewrite_entry(st1, i, enc, chunks) ==
  IF enc[1] \in {"rq_dyn", "lt_dyn"} /\ chunks # <<>>
  THEN [st1 EXCEPT !.full_encs[i] = resolve_dynamic(enc, chunks[Len(chunks)])]
  ELSE st1

\* the while loop of the Chunk arm on one fragment (size > 0)
RECURSIVE chunk_split(_, _)
chunk_split(chunk, size) ==
  IF chunk = <<>> THEN <<>>
  ELSE <<SubSeq(chunk, 1, Min(size, Len(chunk)))>>
       \o chunk_split(SubSeq(chunk, Min(size, Len(chunk)) + 1, Len(chunk)), size)

Replicate(x, n) == [i \in 1..n |-> x]

\* the H arm: one header per fragment; st = [chunks, next_msg_id, ok]
\* the Message-Id of the fragment idx (0-based) in the H arm; first is the
\* value of next_msg_id once the fragment 0 was given data_orig_id
msg_id_of(idx, first, data_orig_id) ==
  IF idx = 0 THEN data_orig_id ELSE first + (idx - 1)

\* a header that carries the chunking fields whatever the number of fragments
header_stamped(idx, total_chunks, msg_id, size, full_encs, header_template, data_orig_id) ==
  [header_template EXCEPT !.total_chunks = Some(total_chunks), !.chunk_id = Some(idx),
                          !.original_message_id = Some(data_orig_id),
                          !.message_id = Some(msg_id),
                          !.content_encoding = Some(full_encs), !.payload_size = Some(size)]

\* the header of the fragment idx (0-based) in the H arm
header_of(idx, total_chunks, msg_id, size, full_encs, header_template, data_orig_id) ==
  Let(IF total_chunks > 1
      THEN [header_template EXCEPT !.total_chunks = Some(total_chunks),
                                   !.chunk_id = Some(idx),
                                   !.original_message_id = Some(data_orig_id)]
      ELSE header_template, LAMBDA h0 :
  Let([h0 EXCEPT !.message_id = Some(msg_id)], LAMBDA h1 :
    [(IF idx > 0 THEN set_media_type(h1, None) ELSE h1)
       EXCEPT !.content_encoding = Some(full_encs), !.payload_size = Some(size)]))

\* the H arm: one header per fragment; st = [chunks, next_msg_id, ok]
h_step(g, st, full_encs, header_template, data_orig_id) ==
  Let(Len(st.chunks), LAMBDA total_chunks :
  Let(IF st.next_msg_id = data_orig_id THEN data_orig_id + 1 ELSE st.next_msg_id, LAMBDA first :
    [st EXCEPT
       !.chunks = [i \in 1..total_chunks |->
                     pack(header_of(i - 1, total_chunks, msg_id_of(i - 1, first, data_orig_id),
                                    Len(st.chunks[i]), full_encs, header_template, data_orig_id),
                          st.chunks[i]).data],
       !.next_msg_id = IF total_chunks = 0 THEN st.next_msg_id
                       ELSE first + (total_chunks - 1)]))

\* the loop of generate over full_encs[i..]; st = [chunks, next_msg_id,
\* full_encs, diverges]
RECURSIVE gen_loop(_, _, _, _, _)
\* one iteration of the loop of generate, for the encoding enc
gen_step(g, st, enc, header_template, data_orig_id) ==
  CASE IsH(enc) -> h_step(g, st, st.full_encs, header_template, data_orig_id)
    [] IsChunk(enc) ->
         IF enc[2] = 0 /\ \E j \in 1..Len(st.chunks) : st.chunks[j] # <<>>
         THEN [st EXCEPT !.diverges = TRUE]
         ELSE [st EXCEPT !.chunks =
                 Concat([j \in 1..Len(st.chunks) |-> chunk_split(st.chunks[j], enc[2])])]
    [] enc[1] = "repeat" ->
         [st EXCEPT !.chunks =
            Concat([j \in 1..Len(st.chunks) |-> Replicate(st.chunks[j], enc[2])])]
    [] OTHER ->
         [st EXCEPT !.chunks =
            Concat([j \in 1..Len(st.chunks) |->
                      apply_encodings(st.chunks[j], resolve_dynamic(enc, st.chunks[j]))])]

gen_loop(g, st, i, header_template, data_orig_id) ==
  IF i > Len(st.full_encs) \/ st.diverges THEN st
  ELSE gen_loop(g, rewrite_entry(gen_step(g, st, st.full_encs[i], header_template, data_orig_id),
                                 i, st.full_encs[i], st.chunks),
                i + 1, header_template, data_orig_id)

\* generate without the announcement part: the data PDUs
generate_data(g, data, media, data_orig_id, next_msg_id) ==
  gen_loop(g, [chunks |-> <<data>>, next_msg_id |-> next_msg_id,
               full_encs |-> resolve_encodings(g), diverges |-> FALSE],
           1,
           set_media_type([DefaultHeader EXCEPT !.file_size = Some(Len(data)),
                                                !.src_callsign = g.src_callsign,
                                                !.dst_callsign = g.dst_callsign], media),
           data_orig_id)

\* an announcement body that carries the Message-Id of the announcement
announcement_body_own_id(data_orig_id, full_encs, media) ==
  set_media_type([DefaultHeader EXCEPT !.message_id = Some(data_orig_id - 1),
                                       !.content_encoding = Some(full_encs)],
                 media_type(set_media_type(DefaultHeader, media)))

\* the body of the announcement: Message-Id, encodings and media type of the
\* data
announcement_body(data_orig_id, full_encs, media) ==
  set_media_type([DefaultHeader EXCEPT !.message_id = Some(data_orig_id),
                                       !.content_encoding = Some(full_encs)],
                 media_type(set_media_type(DefaultHeader, media)))

\* the announcement PDUs of generate; st is the result for the data
generate_announcement(g, st, media, data_orig_id) ==
  IF IsSome(g.announcement) /\ ~st.diverges
  THEN generate_data(PDUGenerator_new(g.src_callsign, g.dst_callsign, None,
                                      g.announcement, None, g.next_msg_id),
                     <<HdrTok(announcement_body(data_orig_id, st.full_encs, media))>>,
                     Some(<<"Type", AnnType>>), g.next_msg_id, g.next_msg_id)
  ELSE [chunks |-> <<>>, diverges |-> FALSE]

\* generate: [pdus, next_msg_id, diverges]
generate(g, data, media) ==
  Let(IF IsSome(g.announcement) THEN g.next_msg_id + 1 ELSE g.next_msg_id, LAMBDA data_orig_id :
  Let(generate_data(g, data, media, data_orig_id, data_orig_id), LAMBDA st :
  Let(generate_announcement(g, st, media, data_orig_id), LAMBDA ast :
    [pdus |-> ast.chunks \o st.chunks, next_msg_id |-> st.next_msg_id,
     diverges |-> st.diverges \/ ast.diverges,
     n_ann |-> Len(ast.chunks), full_encs |-> st.full_encs])))

(* ---------------- codec/lt.rs : the LT code ---------------------------- *)
\* a ^ b on bytes
RECURSIVE BitXor(_, _)
BitXor(a, b) ==
  IF a = 0 THEN b
  ELSE IF b = 0 THEN a
  ELSE ((a + b) % 2) + 2 * BitXor(a \div 2, b \div 2)

\* xor_block: dest ^= src over the bytes both have
xor_block(dest, src) ==
  [i \in 1..Len(dest) |-> IF i <= Len(src) THEN B(BitXor(dest[i].v, src[i].v)) ELSE dest[i]]

\* LTEncoder::new: the data padded with zeros and cut in blocks of
\* symbol_size bytes (block idx is element idx + 1)
lt_blocks(data, symbol_size) ==
  [i \in 1..DivCeil(Len(data), symbol_size) |->
     [j \in 1..symbol_size |->
        IF (i - 1) * symbol_size + j <= Len(data)
        THEN data[(i - 1) * symbol_size + j] ELSE B(0)]]

\* The neighbours of the repair packet esi among k blocks: the set that
\* RobustSoliton::sample and SplitMix64::new(esi) draw, evaluated for the
\* pairs <<k, esi>> the model uses.
LtNeighborTable ==
  <<1, 1>> :> {0} @@ <<1, 2>> :> {0} @@ <<1, 3>> :> {0} @@ <<1, 4>> :> {0} @@
  <<1, 5>> :> {0} @@ <<1, 6>> :> {0} @@ <<2, 2>> :> {0, 1} @@ <<2, 3>> :> {1} @@
  <<2, 4>> :> {0} @@ <<2, 5>> :> {0} @@ <<2, 6>> :> {0, 1} @@ <<2, 7>> :> {0} @@
  <<3, 3>> :> {0} @@ <<3, 4>> :> {0, 1} @@ <<3, 5>> :> {1, 2} @@
  <<3, 6>> :> {0, 2} @@ <<3, 7>> :> {0, 1} @@ <<3, 8>> :> {1, 2} @@
  <<4, 4>> :> {0, 3} @@ <<4, 5>> :> {0, 3} @@ <<4, 6>> :> {1, 2} @@
  <<4, 7>> :> {0, 2} @@ <<4, 8>> :> {0, 1} @@ <<4, 9>> :> {0, 2} @@
  <<5, 5>> :> {3, 4} @@ <<5, 6>> :> {1, 2, 3} @@ <<5, 7>> :> {1, 4} @@
  <<5, 8>> :> {0, 2} @@ <<5, 9>> :> {1, 3} @@ <<5, 10>> :> {4} @@
  <<6, 6>> :> {0, 3, 5} @@ <<6, 7>> :> {0, 3} @@ <<6, 8>> :> {1, 5} @@
  <<6, 9>> :> {0, 4, 5} @@ <<6, 10>> :> {2} @@ <<6, 11>> :> {1, 3} @@
  <<7, 7>> :> {0, 3} @@ <<7, 8>> :> {2, 6} @@ <<7, 9>> :> {0, 2, 6} @@
  <<7, 10>> :> {6} @@ <<7, 11>> :> {0, 3} @@ <<7, 12>> :> {2, 4}

lt_neighbors(k, esi) == LtNeighborTable[<<k, esi>>]

\* the XOR of the blocks idxs (a non-empty set of block indices)
RECURSIVE XorBlocks(_, _)
XorBlocks(blocks, idxs) ==
  Let(CHOOSE i \in idxs : TRUE, LAMBDA i :
    IF idxs = {i} THEN blocks[i + 1]
    ELSE xor_block(XorBlocks(blocks, idxs \ {i}), blocks[i + 1]))

\* LTEncoder::encode: the bytes after the ESI of the packet esi
lt_payload(data, mtu, esi) ==
  Let(lt_blocks(data, mtu), LAMBDA blocks :
    IF esi < Len(blocks) THEN blocks[esi + 1]
    ELSE XorBlocks(blocks, lt_neighbors(Len(blocks), esi)))

\* LTDecoder::new: blocks maps a block index to its bytes, graph maps the
\* ESI of a stored packet to its unknown neighbours and reduced payload
LTDecoder_new(total_len, symbol_size) ==
  [total_len |-> total_len, symbol_size |-> symbol_size,
   k |-> DivCeil(total_len, symbol_size), blocks |-> <<>>, graph |-> <<>>]

\* a propagate that forgets to XOR the resolved block into the waiting
\* packet
lt_release_no_xor(ps, esi, resolved) ==
  Let(ps.st.graph[esi], LAMBDA g :
  Let(g.payload, LAMBDA payload :
  Let(g.unknown \ {resolved}, LAMBDA unknown :
    IF Cardinality(unknown) = 1
    THEN Let(CHOOSE x \in unknown : TRUE, LAMBDA new_idx :
           IF new_idx \in DOMAIN ps.st.blocks
           THEN [ps EXCEPT !.st.graph = MapRemove(ps.st.graph, esi)]
           ELSE [st |-> [ps.st EXCEPT !.graph = MapRemove(ps.st.graph, esi),
                                      !.blocks = MapPut(ps.st.blocks, new_idx, payload)],
                 stack |-> Append(ps.stack, new_idx)])
    ELSE [ps EXCEPT !.st.graph = MapPut(ps.st.graph, esi,
                                        [unknown |-> unknown, payload |-> payload])])))

\* propagate, for one packet esi that waits for the block resolved:
\* ps = [st, stack]
lt_release(ps, esi, resolved) ==
  Let(ps.st.graph[esi], LAMBDA g :
  Let(xor_block(g.payload, ps.st.blocks[resolved]), LAMBDA payload :
  Let(g.unknown \ {resolved}, LAMBDA unknown :
    IF Cardinality(unknown) = 1
    THEN Let(CHOOSE x \in unknown : TRUE, LAMBDA new_idx :
           IF new_idx \in DOMAIN ps.st.blocks
           THEN [ps EXCEPT !.st.graph = MapRemove(ps.st.graph, esi)]
           ELSE [st |-> [ps.st EXCEPT !.graph = MapRemove(ps.st.graph, esi),
                                      !.blocks = MapPut(ps.st.blocks, new_idx, payload)],
                 stack |-> Append(ps.stack, new_idx)])
    ELSE [ps EXCEPT !.st.graph = MapPut(ps.st.graph, esi,
                                        [unknown |-> unknown, payload |-> payload])])))

\* propagate: the loop over the packets that wait for the block resolved
RECURSIVE lt_release_all(_, _, _)
lt_release_all(ps, waiting, resolved) ==
  IF waiting = {} THEN ps
  ELSE Let(CHOOSE e \in waiting : TRUE, LAMBDA e :
         lt_release_all(lt_release(ps, e, resolved), waiting \ {e}, resolved))

\* LTDecoder::propagate: the loop over the stack of resolved blocks
RECURSIVE lt_propagate(_, _)
lt_propagate(st, stack) ==
  IF stack = <<>> THEN st
  ELSE Let(stack[Len(stack)], LAMBDA resolved :
       Let(lt_release_all([st |-> st, stack |-> AllButLast(stack)],
                          {e \in DOMAIN st.graph : resolved \in st.graph[e].unknown},
                          resolved), LAMBDA ps :
         lt_propagate(ps.st, ps.stack)))

\* LTDecoder::decode of a packet with the given ESI and payload
LTDecoder_decode(st, esi, payload) ==
  IF Len(payload) # st.symbol_size THEN st
  ELSE IF esi < st.k
  THEN IF esi \in DOMAIN st.blocks THEN st
       ELSE lt_propagate([st EXCEPT !.blocks = MapPut(st.blocks, esi, payload)], <<esi>>)
  ELSE IF st.k = 0 THEN st
  ELSE Let(lt_neighbors(st.k, esi), LAMBDA neighbors :
       Let(neighbors \ DOMAIN st.blocks, LAMBDA unknown :
       Let(IF neighbors \cap DOMAIN st.blocks = {} THEN payload
           ELSE xor_block(payload,
                          XorBlocks([i \in 1..st.k |->
                                       IF (i - 1) \in DOMAIN st.blocks
                                       THEN st.blocks[i - 1] ELSE <<>>],
                                    neighbors \cap DOMAIN st.blocks)), LAMBDA reduced :
         IF unknown = {} THEN st
         ELSE IF Cardinality(unknown) = 1
         THEN lt_propagate([st EXCEPT !.blocks =
                              MapPut(st.blocks, CHOOSE x \in unknown : TRUE, reduced)],
                           <<CHOOSE x \in unknown : TRUE>>)
         ELSE [st EXCEPT !.graph = MapPut(st.graph, esi,
                                          [unknown |-> unknown, payload |-> reduced])])))

\* LTDecoder::get_result
LTDecoder_get_result(st) ==
  IF st.k = 0 THEN Some(<<>>)
  ELSE IF Cardinality(DOMAIN st.blocks) < st.k THEN None
  ELSE Some(SubSeq(Concat([i \in 1..st.k |-> st.blocks[i - 1]]), 1, st.total_len))

\* lt_decode: the loop over the packets; a packet is one "lt" token
RECURSIVE lt_feed(_, _, _)
lt_feed(st, packets, mtu) ==
  IF packets = <<>> THEN st
  ELSE Let(Head(packets)[1].v, LAMBDA pv :
         lt_feed(IF pv[2] < mtu THEN st
                 ELSE LTDecoder_decode(st, pv[3], lt_payload(pv[1], pv[2], pv[3])),
                 Tail(packets), mtu))

\* lt_decode
lt_decode(packets, original_count, mtu) ==
  IF mtu = 0 \/ original_count = 0 THEN Ok(<<>>, 10)
  ELSE Let(LTDecoder_get_result(lt_feed(LTDecoder_new(original_count, mtu), packets, mtu)),
           LAMBDA res : IF IsSome(res) THEN Ok(Unwrap(res), 10) ELSE Err)

(* ---------------- codec/golay.rs : Golay(24,12) ------------------------ *)
\* A machine word is the set of the positions of its 1 bits (bit 0 is the
\* least significant).
BitsOf(n) == {i \in 0..23 : (n \div 2^i) % 2 = 1}

\* a ^ b
WordXor(a, b) == (a \ b) \cup (b \ a)

\* a << n and a >> n
Shl(a, n) == {i + n : i \in a}
Shr(a, n) == {i - n : i \in {j \in a : j >= n}}

GOLAY_B ==
  [i \in 0..11 |->
     BitsOf(<<\h8ED, \h1DB, \h3B6, \h76C, \hED8, \hDB5,
              \hB6B, \h6D7, \hDAE, \hB5D, \h6BA, \hD74>>[i + 1])]

\* the loop "for i in 0..12 { if (data >> (11 - i)) & 1 != 0 { parity ^=
\* GOLAY_B[i] } }", from i on
RECURSIVE golay_parity(_, _)
golay_parity(data, i) ==
  IF i = 12 THEN {}
  ELSE IF (11 - i) \in data THEN WordXor(GOLAY_B[i], golay_parity(data, i + 1))
  ELSE golay_parity(data, i + 1)

encode_codeword(data) == Shl(data, 12) \cup golay_parity(data, 0)

compute_syndrome(received) ==
  WordXor(received \cap 0..11, golay_parity(Shr(received, 12), 0))

weight12(n) == Cardinality(n \cap 0..11)

\* the s * B of decode_codeword
golay_s_prime(s) ==
  {11 - i : i \in {i \in 0..11 :
     Cardinality({j \in 0..11 : (11 - j) \in s /\ (11 - i) \in GOLAY_B[j]}) % 2 = 1}}

\* the first i of 0..11 with weight12(w ^ GOLAY_B[i]) <= 2, if there is one
golay_first(w) ==
  Let({i \in 0..11 : weight12(WordXor(w, GOLAY_B[i])) <= 2}, LAMBDA hits :
    IF hits = {} THEN None ELSE Some(CHOOSE i \in hits : \A j \in hits : i <= j))

\* decode_codeword: <<data word, number of corrected bits>>
decode_codeword(received) ==
  Let(compute_syndrome(received), LAMBDA s :
    IF s = {} THEN <<Shr(received, 12), 0>>
    ELSE IF weight12(s) <= 3 THEN <<Shr(WordXor(received, s), 12), weight12(s)>>
    ELSE IF IsSome(golay_first(s))
    THEN Let(Unwrap(golay_first(s)), LAMBDA i :
           <<Shr(WordXor(received, WordXor(s, GOLAY_B[i]) \cup {23 - i}), 12),
             weight12(WordXor(s, GOLAY_B[i])) + 1>>)
    ELSE Let(golay_s_prime(s), LAMBDA s_prime :
           IF weight12(s_prime) <= 3
           THEN <<Shr(WordXor(received, Shl(s_prime, 12)), 12), weight12(s_prime)>>
           ELSE IF IsSome(golay_first(s_prime))
           THEN Let(Unwrap(golay_first(s_prime)), LAMBDA i :
                  <<Shr(WordXor(received,
                                Shl(WordXor(s_prime, GOLAY_B[i]), 12) \cup {11 - i}), 12),
                    weight12(WordXor(s_prime, GOLAY_B[i])) + 1>>)
           ELSE <<Shr(received, 12), 0>>))

(* ---------------- codec/conv.rs : conv(7,1/2) -------------------------- *)
\* the bits of the bytes data, most significant first
bits_of(data) ==
  [k \in 1..(8 * Len(data)) |-> (data[(k - 1) \div 8 + 1].v \div 2^(7 - ((k - 1) % 8))) % 2]

\* the byte built from the bits chunk, the first bit the most significant,
\* the missing bits 0
byte_of(chunk) ==
  Let([i \in 1..8 |-> IF i <= Len(chunk) THEN chunk[i] ELSE 0], LAMBDA c :
    B(c[1] * 128 + c[2] * 64 + c[3] * 32 + c[4] * 16 + c[5] * 8 + c[6] * 4 + c[7] * 2 + c[8]))

\* the XOR of the bits of the 7-bit state that the generator g selects
conv_parity(g, state) ==
  Cardinality({i \in 0..6 : (g \div 2^i) % 2 = 1 /\ (state \div 2^i) % 2 = 1}) % 2

\* CONV_TRANSITIONS[s][bit] = <<next_state, p1, p2>>, generators 0o133, 0o171
CONV_TRANSITIONS ==
  [s \in 0..63 |-> [bit \in 0..1 |->
     <<(2 * s + bit) % 64, conv_parity(\o133, 2 * s + bit), conv_parity(\o171, 2 * s + bit)>>]]

\* the loop of conv_encode over the input bits, from the 6-bit state
RECURSIVE conv_encode_bits(_, _)
conv_encode_bits(input_bits, state) ==
  IF input_bits = <<>> THEN <<>>
  ELSE <<CONV_TRANSITIONS[state][Head(input_bits)][2],
         CONV_TRANSITIONS[state][Head(input_bits)][3]>>
       \o conv_encode_bits(Tail(input_bits), CONV_TRANSITIONS[state][Head(input_bits)][1])

\* conv_encode(data, 7, "1/2"): six flush bits, the last byte padded with 0
conv_encode(data) ==
  Let(conv_encode_bits(bits_of(data) \o <<0, 0, 0, 0, 0, 0>>, 0), LAMBDA bits :
    [k \in 1..DivCeil(Len(bits), 8) |->
       byte_of(SubSeq(bits, 8 * (k - 1) + 1, Min(8 * k, Len(bits))))])

\* u32::MAX, the metric of a state no path has reached
Unreached == -1

\* a distance that looks at the first bit of the pair only
conv_dist_first(r1, r2, trans) == ((r1 + trans[2]) % 2)

\* dist = (r1 ^ trans.p1) + (r2 ^ trans.p2)
conv_dist(r1, r2, trans) == ((r1 + trans[2]) % 2) + ((r2 + trans[3]) % 2)

\* new_dist for the transition from s with bit, or Unreached; metrics
\* holds <<metric, predecessor entry>> of state x at index x + 1
conv_new_dist(metrics, s, bit, r1, r2) ==
  IF metrics[s + 1][1] = Unreached THEN Unreached
  ELSE metrics[s + 1][1] + conv_dist(r1, r2, CONV_TRANSITIONS[s][bit])

\* the <<metric, predecessor entry>> of the next state ns: its two
\* predecessors are visited in ascending order and the later one replaces
\* the earlier one only when strictly better
conv_next(metrics, ns, r1, r2) ==
  Let(conv_new_dist(metrics, ns \div 2, ns % 2, r1, r2), LAMBDA c1 :
  Let(conv_new_dist(metrics, ns \div 2 + 32, ns % 2, r1, r2), LAMBDA c2 :
    IF c2 # Unreached /\ (c1 = Unreached \/ c2 < c1)
    THEN <<c2, 2 * (ns \div 2 + 32) + (ns % 2)>>
    ELSE IF c1 # Unreached THEN <<c1, 2 * (ns \div 2) + (ns % 2)>>
    ELSE <<Unreached, 0>>))

\* one step of the trellis: the column of all 64 next states
conv_step(metrics, r1, r2) ==
  SubSeq([i \in 1..64 |-> conv_next(metrics, i - 1, r1, r2)], 1, 64)

\* the forward pass from step on: the trellis columns, the last one first
RECURSIVE conv_forward(_, _, _)
conv_forward(input_bits, step, cols) ==
  IF step > Len(input_bits) \div 2 THEN cols
  ELSE Let(conv_step(cols[1], input_bits[2 * step - 1], input_bits[2 * step]), LAMBDA col :
         \* the column of this step is complete before the next step starts
         IF Len(col) # 64 THEN cols
         ELSE conv_forward(input_bits, step + 1, <<col>> \o cols))

\* the traceback from curr_s through the columns, the last one first: the
\* decoded bits in order; the last column is the initial one
RECURSIVE conv_traceback(_, _)
conv_traceback(cols, curr_s) ==
  IF Len(cols) <= 1 THEN <<>>
  ELSE Append(conv_traceback(Tail(cols), cols[1][curr_s + 1][2] \div 2),
              cols[1][curr_s + 1][2] % 2)

\* the state of the least metric, the lowest such state
conv_best(metrics) ==
  Let({x \in 0..63 : metrics[x + 1][1] # Unreached}, LAMBDA reached :
    CHOOSE x \in reached :
      \A y \in reached :
        \/ metrics[x + 1][1] < metrics[y + 1][1]
        \/ (metrics[x + 1][1] = metrics[y + 1][1] /\ x <= y))

\* conv_decode(data, 7, "1/2"): <<bytes, metric of the path chosen>>
conv_decode(data) ==
  IF Len(data) = 0 THEN <<<<>>, 0>>
  ELSE
  Let(conv_forward(bits_of(data), 1,
                   <<[x \in 1..64 |-> IF x = 1 THEN <<0, 0>> ELSE <<Unreached, 0>>]>>),
      LAMBDA cols :
  Let(conv_best(cols[1]), LAMBDA best_state :
  Let(conv_traceback(cols, best_state), LAMBDA all_bits :
  Let(IF Len(all_bits) > 6 THEN SubSeq(all_bits, 1, Len(all_bits) - 6) ELSE <<>>,
      LAMBDA decoded_bits :
    <<[k \in 1..(Len(decoded_bits) \div 8) |->
         byte_of(SubSeq(decoded_bits, 8 * (k - 1) + 1, 8 * k))],
      cols[1][best_state + 1][1]>>))))

(* ---------------- codec/scr.rs : the scrambler -------------------------- *)
\* u64 words are the sets of the positions 0..63 of their 1 bits

\* 64 - poly_mask.leading_zeros()
scr_width(poly_mask) ==
  IF poly_mask = {} THEN 0 ELSE 1 + CHOOSE i \in poly_mask : \A j \in poly_mask : j <= i

\* the reload value: the seed, or the width low bits set
scr_mask(poly_mask, seed) ==
  IF IsSome(seed) THEN Unwrap(seed) ELSE 0..(scr_width(poly_mask) - 1)

\* the XOR of the bits of state & poly_mask
scr_feedback(state, poly_mask) == Cardinality(state \cap poly_mask) % 2

\* a shift register fed with the scrambled bit
scr_shift_output(state, feedback, scr_bit, mask) ==
  Let((Shl(state, 1) \cap (0..63)) \cup (IF scr_bit = 1 THEN {0} ELSE {}), LAMBDA nx :
    IF nx \cap mask = {} THEN mask ELSE nx \cap mask)

\* state = ((state << 1) | feedback) & mask, reloaded with mask when 0
scr_shift(state, feedback, scr_bit, mask) ==
  Let((Shl(state, 1) \cap (0..63)) \cup (IF feedback = 1 THEN {0} ELSE {}), LAMBDA nx :
    IF nx \cap mask = {} THEN mask ELSE nx \cap mask)

\* the loop over the bits of the data, most significant first
RECURSIVE scr_bits(_, _, _, _)
scr_bits(bits, state, poly_mask, mask) ==
  IF bits = <<>> THEN <<>>
  ELSE Let((Head(bits) + scr_feedback(state, poly_mask)) % 2, LAMBDA scr_bit :
         <<scr_bit>> \o scr_bits(Tail(bits),
                                 scr_shift(state, scr_feedback(state, poly_mask), scr_bit, mask),
                                 poly_mask, mask))

\* scr_xor(data, poly_mask, seed)
scr_xor(data, poly_mask, seed) ==
  IF poly_mask = {} THEN data
  ELSE Let(scr_bits(bits_of(data), scr_mask(poly_mask, seed), poly_mask,
                    scr_mask(poly_mask, seed)), LAMBDA bits :
         [k \in 1..Len(data) |-> byte_of(SubSeq(bits, 8 * (k - 1) + 1, 8 * k))])

(* ---------------- random_encoding.rs, random_sensible_encoding.rs ------- *)
\* A seed stands for the stream of draws StdRng::seed_from_u64 yields from
\* it: a draw is a level 0..DrawLevels, the fraction of the range asked for,
\* and the stream has period MaxDraws.
DrawLevels == 3
MaxDraws == 7

\* the generator seeded with seed: <<stream, number of draws taken>>
seed_from_u64(seed) == <<seed, 0>>

\* the level of the next draw, and the generator after n draws
rng_level(rng) == rng[1][(rng[2] % Len(rng[1])) + 1]
rng_skip(rng, n) == <<rng[1], rng[2] + n>>

\* rng.gen_range(lo..=hi)
gen_range(rng, lo, hi) == lo + ((rng_level(rng) * (hi - lo)) \div DrawLevels)

\* rng.gen_bool(percent / 100)
gen_bool(rng, percent) == rng_level(rng) * 100 < percent * DrawLevels

\* rng.gen::<u64>() | 1, a word as the set of its 1 bits
gen_u64_or_1(rng) ==
  {0} \cup {i \in 0..63 : rng_level(rng) > 0 /\ (i % (DrawLevels + 1 - rng_level(rng))) = 0}

\* a.saturating_sub(b)
saturating_sub(a, b) == IF a > b THEN a - b ELSE 0

\* a stage of a generator returns <<entries pushed, generator after it>>;
\* Then runs stage after acc
Then(acc, stage(_)) == Let(stage(acc[2]), LAMBDA r : <<acc[1] \o r[1], r[2]>>)

\* if rng.gen_bool(0.5) { Crc16 } else { Crc32 }
ge_crc(rng) == <<IF gen_bool(rng, 50) THEN <<Crc16>> ELSE <<Crc32>>, rng_skip(rng, 1)>>

\* 1. compression
ge_compression(rng) ==
  IF gen_bool(rng, 30)
  THEN <<<< <<Gzip, Brotli, Lzma>>[gen_range(rng_skip(rng, 1), 0, 2) + 1] >>, rng_skip(rng, 2)>>
  ELSE <<<<>>, rng_skip(rng, 1)>>

\* 2. pre-H integrity
ge_pre_integrity(rng) ==
  IF gen_bool(rng, 20) THEN ge_crc(rng_skip(rng, 1)) ELSE <<<<>>, rng_skip(rng, 1)>>

\* the four expansions, the kind drawn already
ge_expansion_of(kind, rng) ==
  CASE kind = 0 ->
         <<<<RaptorQDynamic(gen_range(rng, 64, 1200) % 65536,
                            gen_range(rng_skip(rng, 1), 10, 99))>>, rng_skip(rng, 2)>>
    [] kind = 1 ->
         <<<<LTDynamic(gen_range(rng, 64, 1200) % 65536,
                       gen_range(rng_skip(rng, 1), 10, 99))>>, rng_skip(rng, 2)>>
    [] kind = 2 -> <<<<Chunk(gen_range(rng, 64, 2047))>>, rng_skip(rng, 1)>>
    [] OTHER -> <<<<Repeat(gen_range(rng, 2, 5))>>, rng_skip(rng, 1)>>

\* 3. expansion or fragmentation
ge_expansion(rng) ==
  IF gen_bool(rng, 40)
  THEN ge_expansion_of(gen_range(rng_skip(rng, 1), 0, 3), rng_skip(rng, 2))
  ELSE <<<<>>, rng_skip(rng, 1)>>

\* the pivot
ge_h(rng) == <<<<H>>, rng>>

\* 4. post-H integrity
ge_post_integrity(rng) ==
  IF gen_bool(rng, 30) THEN ge_crc(rng_skip(rng, 1)) ELSE <<<<>>, rng_skip(rng, 1)>>

\* Reed-Solomon whose k is one more than the code draws
ge_rs_k_up_to_n(which, rng) ==
  Let(CASE which = 0 -> <<224, rng>>
        [] which = 1 -> <<128, rng>>
        [] OTHER -> <<gen_range(rng, 64, 224), rng_skip(rng, 1)>>, LAMBDA nr :
    <<<<ReedSolomon(nr[1], 1 + gen_range(nr[2], saturating_sub(nr[1], 32), saturating_sub(nr[1], 1)))>>,
      rng_skip(nr[2], 1)>>)

\* Reed-Solomon: n is 224, 128 or drawn in 64..=224, k is drawn in
\* max(n - 32, 1)..=n - 1
ge_rs(which, rng) ==
  Let(CASE which = 0 -> <<224, rng>>
        [] which = 1 -> <<128, rng>>
        [] OTHER -> <<gen_range(rng, 64, 224), rng_skip(rng, 1)>>, LAMBDA nr :
  Let(saturating_sub(nr[1], 1), LAMBDA max_k :
  Let(IF saturating_sub(nr[1], 32) > 1 THEN saturating_sub(nr[1], 32) ELSE 1, LAMBDA min_k :
    IF min_k < max_k
    THEN <<<<ReedSolomon(nr[1], gen_range(nr[2], min_k, max_k))>>, rng_skip(nr[2], 1)>>
    ELSE <<<<ReedSolomon(nr[1], max_k)>>, nr[2]>>)))

\* 5. FEC
ge_fec(rng) ==
  IF gen_bool(rng, 50)
  THEN IF gen_bool(rng_skip(rng, 1), 80)
       THEN ge_rs(gen_range(rng_skip(rng, 2), 0, 2), rng_skip(rng, 3))
       ELSE <<<<Conv(7, "1/2")>>, rng_skip(rng, 2)>>
  ELSE <<<<>>, rng_skip(rng, 1)>>

\* 6. scramble or extra repeat
ge_scramble(rng) ==
  IF gen_bool(rng, 20)
  THEN IF gen_bool(rng_skip(rng, 1), 50)
       THEN <<<<Scrambler(gen_u64_or_1(rng_skip(rng, 2)), None)>>, rng_skip(rng, 3)>>
       ELSE <<<<Repeat(gen_range(rng_skip(rng, 2), 2, 3))>>, rng_skip(rng, 3)>>
  ELSE <<<<>>, rng_skip(rng, 1)>>

\* generate_encoding(seed)
generate_encoding(seed) ==
  Then(Then(Then(Then(Then(Then(Then(<<<<>>, seed_from_u64(seed)>>,
    ge_compression), ge_pre_integrity), ge_expansion), ge_h),
    ge_post_integrity), ge_fec), ge_scramble)[1]

\* 7. external FEC: <<entries pushed, generator, current_mtu>>
gs_external(rng, rnd_8, current_mtu) ==
  Let(gen_range(rng, 0, IF rnd_8 = 0 THEN 1 ELSE 2), LAMBDA rnd_7 :
    CASE rnd_7 = 1 ->
           Let(gen_range(rng_skip(rng, 1), current_mtu \div 2, current_mtu - 1), LAMBDA k :
             <<<<ReedSolomon(current_mtu, k)>>, rng_skip(rng, 2), k>>)
      [] rnd_7 = 2 -> <<<<Conv(7, "1/2")>>, rng_skip(rng, 1), current_mtu \div 2>>
      [] OTHER -> <<<<>>, rng_skip(rng, 1), current_mtu>>)

\* 6. whitening scramble or extra repeat; 0x1C7 and 0x1A9, 0xFF
gs_scramble(rng) ==
  Let(gen_range(rng, 0, 3), LAMBDA rnd_6 :
    CASE rnd_6 = 1 -> <<<<Scrambler({0, 1, 2, 6, 7, 8}, None)>>, rng_skip(rng, 1)>>
      [] rnd_6 = 2 -> <<<<Scrambler({0, 3, 5, 7, 8}, Some(0..7))>>, rng_skip(rng, 1)>>
      [] rnd_6 = 3 -> <<<<Repeat(gen_range(rng_skip(rng, 1), 2, 4))>>, rng_skip(rng, 2)>>
      [] OTHER -> <<<<>>, rng_skip(rng, 1)>>)

\* 5. and 2. integrity: <<entries pushed, current_mtu>>
gs_crc(rnd, current_mtu) ==
  CASE rnd = 1 -> <<<<Crc16>>, saturating_sub(current_mtu, 2)>>
    [] rnd = 2 -> <<<<Crc32>>, saturating_sub(current_mtu, 4)>>
    [] OTHER -> <<<<>>, current_mtu>>

\* 1. object segmentation
gs_segmentation(rng, rnd_1, current_mtu) ==
  CASE rnd_1 = 1 -> <<Chunk(current_mtu)>>
    [] rnd_1 = 2 ->
         IF gen_bool(rng, 50)
         THEN <<RaptorQDynamicPercent(current_mtu % 65536,
                                      gen_range(rng_skip(rng, 1), 50, 100) % 256)>>
         ELSE <<RaptorQDynamic(current_mtu % 65536, gen_range(rng_skip(rng, 1), 1, 20))>>
    [] rnd_1 = 3 -> <<LTDynamic(current_mtu % 65536, gen_range(rng, 1, 20))>>
    [] OTHER -> <<>>

\* generate_sensible_encoding(seed): the entries are pushed from the
\* innermost FEC outwards and reversed at the end
generate_sensible_encoding(seed) ==
  Let(gen_range(seed_from_u64(seed), 0, 1), LAMBDA rnd_8 :
  Let(gs_external(rng_skip(seed_from_u64(seed), 1), rnd_8, IF rnd_8 = 0 THEN 120 ELSE 240),
      LAMBDA s7 :
  Let(gs_scramble(s7[2]), LAMBDA s6 :
  Let(gen_range(s6[2], 0, 3), LAMBDA rnd_1 :
  Let(gs_crc(gen_range(rng_skip(s6[2], 1), 0, 2), s7[3]), LAMBDA s5 :
  Let(gs_crc(gen_range(rng_skip(s6[2], 2), IF rnd_1 >= 2 THEN 1 ELSE 0, 2),
             saturating_sub(s5[2], 40)), LAMBDA s2 :
    Reverse((IF rnd_8 = 0 THEN <<Conv(7, "1/2")>> ELSE <<>>)
            \o s7[1] \o s6[1] \o s5[1] \o <<H>> \o s2[1]
            \o gs_segmentation(rng_skip(s6[2], 3), rnd_1, s2[2]))))))))

(* ---------------- the state machine ------------------------------------ *)
VARIABLES
  gens,     \* sender name -> its PDUGenerator
  sent,     \* sender name -> Option(payload passed to generate)
  air,      \* the PDUs generate returned: [src, bytes, fed]
  d,        \* the Deframer
  log,      \* every event pushed on d.events so far, in push order
  popped,   \* the events next_event returned so far, in order
  best,     \* (session key, Chunk-Id) -> the earliest copy of the highest
            \* quality processed since the session was created
  last,     \* what the last operation did
  input,    \* the arguments of a call of a function under test, <<>> if none
  output    \* Option(what that call returned)

vars == <<gens, sent, air, d, log, popped, best, last, rq_overhead, input, output>>

MaxLen == 3
MaxPayload == 2

Bytes == {B(1), B(2)}
\* a payload byte run that parses as a CBOR header with Message-Id 7
InnerHdr == HdrTok([DefaultHeader EXCEPT !.message_id = Some(7)])

SeqsFrom0(S, n) == UNION {[1..k -> S] : k \in 0..n}

Payloads == SeqsFrom0(Bytes \cup {InnerHdr}, MaxLen)

Perms(S) == {f \in [1..Cardinality(S) -> S] : \A i, j \in 1..Cardinality(S) : i # j => f[i] # f[j]}

NoOp == [op |-> "init", n_pdu |-> 0, n_msg |-> 0, ret |-> None, bytes |-> <<>>, pre |-> Deframer_new]

CountKind(evs, k) == Cardinality({i \in 1..Len(evs) : evs[i].kind = k})

\* the sender configurations of the single-sender link
LinkConfigs ==
  {[max |-> Some(n), encs |-> None, ann |-> None] : n \in 1..MaxPayload}
  \cup {[max |-> None, encs |-> Some(<<H, Crc32>>), ann |-> Some(<<H>>)],
        [max |-> None, encs |-> Some(<<H, Crc32>>), ann |-> Some(<<Identity>>)],
        [max |-> None, encs |-> Some(<<H, Gzip>>), ann |-> Some(<<Identity>>)],
        [max |-> None, encs |-> Some(<<Repeat(2), H>>), ann |-> None],
        [max |-> None, encs |-> Some(<<H, Repeat(2)>>), ann |-> None],
        [max |-> Some(1), encs |-> Some(<<Crc32>>), ann |-> None]}

NewGen(s, c) == PDUGenerator_new(Some(s), None, c.max, c.encs, c.ann, 1)

\* the history best after the process_pdu calls es of one receive_bytes call
RECURSIVE Track(_, _)
Track(bst, es) ==
  IF es = <<>> THEN bst
  ELSE IF Head(es).is_ann THEN Track(bst, Tail(es))
  ELSE
  Let(Head(es), LAMBDA e :
  Let(IF <<e.key, e.chunk_id>> \notin DOMAIN bst \/ e.q > bst[<<e.key, e.chunk_id>>].q
      THEN MapPut(bst, <<e.key, e.chunk_id>>, [p |-> e.payload, q |-> e.q]) ELSE bst, LAMBDA b1 :
    Track(IF e.complete THEN [x \in {y \in DOMAIN b1 : y[1] # e.key} |-> b1[x]] ELSE b1,
          Tail(es))))

InitCommon ==
  /\ air = <<>>
  /\ d = Deframer_new
  /\ log = <<>>
  /\ popped = <<>>
  /\ best = <<>>
  /\ last = NoOp

\* the senders of this specification use no RaptorQ codec
NoRq == rq_overhead = 0

\* no function is called on its own
NoCall == input = <<>> /\ output = None

\* one sender, any configuration of LinkConfigs
InitLink ==
  /\ \E c \in LinkConfigs : gens = [s \in {"S1"} |-> NewGen(s, c)]
  /\ sent = [s \in {"S1"} |-> None]
  /\ InitCommon
  /\ NoRq
  /\ NoCall

\* generate(data, None) on sender s (one message per sender), data in P
Generate(s, P) ==
  /\ sent[s] = None
  /\ \E data \in P :
       Let(generate(gens[s], data, None), LAMBDA r :
         /\ ~r.diverges
         /\ gens' = [gens EXCEPT ![s].next_msg_id = r.next_msg_id]
         /\ sent' = [sent EXCEPT ![s] = Some(data)]
         /\ air' = air \o [i \in 1..Len(r.pdus) |-> [src |-> s, bytes |-> r.pdus[i], fed |-> FALSE]])
  /\ last' = [NoOp EXCEPT !.op = "generate"]
  /\ UNCHANGED <<d, log, popped, best, rq_overhead, input, output>>

\* the effect of receive_bytes(b) on the deframer and on the observers
\* the events the call appended to the queue
Appended(pre, post) == SubSeq(post.events, Len(pre.events) + 1, Len(post.events))

DoReceive(b) ==
  /\ ~d.panicked
  /\ \E ann_keys \in Perms(DOMAIN d.announcements) :
       Let(receive_bytes([d EXCEPT !.processed = <<>>], b, ann_keys), LAMBDA d2 :
         /\ d' = d2
         /\ best' = Track(best, d2.processed)
         /\ log' = log \o Appended(d, d2)
         /\ last' = [op |-> "receive", n_pdu |-> CountKind(Appended(d, d2), "PDU"),
                     n_msg |-> CountKind(Appended(d, d2), "Message"), ret |-> None,
                     bytes |-> b, pre |-> d])

\* receive_bytes on a PDU of the air that was not fed yet
Receive ==
  \E i \in 1..Len(air) :
    /\ ~air[i].fed
    /\ DoReceive(air[i].bytes)
    /\ air' = [air EXCEPT ![i].fed = TRUE]
    /\ UNCHANGED <<gens, sent, popped, rq_overhead, input, output>>

\* next_event
NextEvent ==
  /\ ~d.panicked
  /\ IF d.events = <<>>
     THEN /\ last' = [NoOp EXCEPT !.op = "next", !.pre = d]
          /\ UNCHANGED <<d, popped>>
     ELSE /\ d' = [d EXCEPT !.events = Tail(d.events)]
          /\ popped' = Append(popped, Head(d.events))
          /\ last' = [NoOp EXCEPT !.op = "next", !.ret = Some(Head(d.events)), !.pre = d]
  /\ UNCHANGED <<gens, sent, air, log, best, rq_overhead, input, output>>

NextLink == Generate("S1", Payloads) \/ Receive \/ NextEvent

SpecLink == InitLink /\ [][NextLink]_vars

\* ---- two senders with the same Message-Ids ----
MaxLenTwo == 2

\* the payloads of the two senders
TwoPayloads(s) ==
  SeqsFrom0(IF s = "S1" THEN {B(1), InnerHdr} ELSE {B(1), B(2)}, MaxLenTwo)

\* two generators with different Src-Callsigns, the same max_payload and the
\* same initial Message-Id
InitTwo ==
  /\ \E n \in 1..MaxPayload :
       gens = [s \in {"S1", "S2"} |-> NewGen(s, [max |-> Some(n), encs |-> None, ann |-> None])]
  /\ sent = [s \in {"S1", "S2"} |-> None]
  /\ InitCommon
  /\ NoRq
  /\ NoCall

NextTwo == (\E s \in {"S1", "S2"} : Generate(s, TwoPayloads(s))) \/ Receive

SpecTwo == InitTwo /\ [][NextTwo]_vars

\* ---- a deframer fed with packets off the air ----
MaxCalls == 3

\* the header of a PDU of sender "A"
Hd(mid, orig, cid, tot, ce) ==
  [DefaultHeader EXCEPT !.message_id = Some(mid), !.src_callsign = Some("A"),
                        !.original_message_id = orig, !.chunk_id = cid,
                        !.total_chunks = tot, !.content_encoding = ce]

\* chunk c of a two-chunk message with Original-Message-Id 1 carrying byte x,
\* without encodings or protected by a post-boundary CRC32
Frag(c, x, crc) ==
  IF crc
  THEN LET pdu == pack(Hd(1 + c, Some(1), Some(c), Some(2), Some(<<H, Crc32>>)), <<B(x)>>).data
       IN Append(pdu, crc32_std(pdu))
  ELSE pack(Hd(1 + c, Some(1), Some(c), Some(2), None), <<B(x)>>).data

\* an unfragmented PDU with Message-Id 5, sent with the stack [H, gzip]
Whole == pack(Hd(5, None, None, None, Some(<<H, Gzip>>)), <<B(1)>>).data

\* a PDU whose header carries Total-Chunks tot and Chunk-Id 0
WithTotal(tot) == pack(Hd(6, Some(6), Some(0), Some(tot), None), <<B(1)>>).data

\* chunk c of the two-chunk message with Original-Message-Id 1, whose header
\* carries File-Size n
Sized(c, n) ==
  pack([Hd(1 + c, Some(1), Some(c), Some(2), None) EXCEPT !.file_size = Some(n)],
       <<B(1)>>).data

\* a byte string of zero length
Empty == <<>>

\* the announcement PDU of sender "A" for Message-Id m and the stack e
Ann(m, e) ==
  pack(set_media_type(Hd(9, None, None, None, Some(<<H>>)), Some(<<"Type", AnnType>>)),
       <<HdrTok([DefaultHeader EXCEPT !.message_id = Some(m),
                                      !.content_encoding = Some(e)])>>).data

Packets ==
  {Frag(c, x, crc) : c \in {0, 1}, x \in {1, 2}, crc \in BOOLEAN}
  \cup {Whole, gzip_compress(Whole), gzip_compress(Frag(0, 1, FALSE)), <<B(1)>>}
  \cup {WithTotal(t) : t \in {0, 1}}
  \cup {Ann(m, e) : m \in {1, 5}, e \in {<<H, Gzip>>}}
  \cup {Ann(5, <<H, Crc32>>)}
  \cup {Sized(0, 1), Sized(1, 2)}
  \cup {Empty}

Init ==
  /\ gens = <<>>
  /\ sent = <<>>
  /\ InitCommon
  /\ NoRq
  /\ NoCall

\* receive_bytes on a packet of Packets
ReceiveBytes ==
  /\ Len(air) < MaxCalls
  /\ \E b \in Packets :
       /\ DoReceive(b)
       /\ air' = Append(air, [src |-> "A", bytes |-> b, fed |-> TRUE])
  /\ UNCHANGED <<gens, sent, popped, rq_overhead, input, output>>

Next == ReceiveBytes

Spec == Init /\ [][Next]_vars

\* ---- one sender with a RaptorQ stack and an announcement ----
MaxRqLen == 3
MaxRepair == 1

\* [rq(len, mtu, r), H] announced with the stack [identity]
RqConfigs ==
  {[max |-> None, encs |-> Some(<<RaptorQ(n, m, r), H>>), ann |-> Some(<<Identity>>)] :
     n \in 2..MaxRqLen, m \in {1, 2}, r \in 0..MaxRepair}

RqPayloads == SeqsFrom0({B(1), InnerHdr}, MaxLenTwo)

InitRq ==
  /\ \E c \in RqConfigs : gens = [s \in {"S1"} |-> NewGen(s, c)]
  /\ sent = [s \in {"S1"} |-> None]
  /\ InitCommon
  /\ rq_overhead \in {0, 1}
  /\ NoCall

NextRq == Generate("S1", RqPayloads) \/ Receive

SpecRq == InitRq /\ [][NextRq]_vars

\* ---- one generator called several times ----
MaxGenCalls == 2

GenConfigs ==
  {[max |-> Some(n), encs |-> None, ann |-> None] : n \in 1..MaxPayload}
  \cup {[max |-> Some(1), encs |-> Some(<<H, Crc32>>), ann |-> Some(<<H>>)],
        [max |-> Some(2), encs |-> Some(<<Chunk(1), H>>), ann |-> None],
        [max |-> None, encs |-> Some(<<Crc32>>), ann |-> Some(<<Identity>>)],
        [max |-> None, encs |-> Some(<<Repeat(2), H>>), ann |-> Some(<<Repeat(2), H>>)],
        [max |-> None, encs |-> Some(<<H, Repeat(2)>>), ann |-> None],
        [max |-> None, encs |-> Some(<<H, H>>), ann |-> None],
        [max |-> None, encs |-> Some(<<RaptorQDynamic(1, 1), H>>), ann |-> Some(<<H>>)],
        [max |-> None, encs |-> Some(<<Chunk(2), RaptorQDynamic(1, 0), H>>), ann |-> None],
        [max |-> None, encs |-> Some(<<LTDynamic(1, 1), H>>), ann |-> None],
        [max |-> None, encs |-> Some(<<RaptorQDynamicPercent(1, 50), H>>), ann |-> Some(<<H>>)]}

\* the stack of generator g has a RaptorQ entry
UsesRq(g) ==
  \E i \in 1..Len(g.encodings) : g.encodings[i][1] \in {"rq", "rq_dyn", "rq_dyn_pct"}

\* the data given to generate: RaptorQ objects of length 0 are left out
GenPayloads(g) ==
  IF UsesRq(g) THEN SeqsFrom0(Bytes, MaxLen) \ {<<>>} ELSE SeqsFrom0(Bytes, MaxLen)

GenMedia ==
  {None, Some(<<"Type", "application/json">>), Some(<<"Type", "text/plain;charset=utf-8">>)}

InitGen ==
  /\ \E c \in GenConfigs : gens = [s \in {"S1"} |-> NewGen(s, c)]
  /\ sent = [s \in {"S1"} |-> None]
  /\ InitCommon
  /\ NoRq
  /\ NoCall

\* generate(data, media) on the generator; output lists, for every call so
\* far, its arguments, the value of next_msg_id before it, and what it returned
GenerateCall ==
  /\ Len(output) < MaxGenCalls
  /\ \E data \in GenPayloads(gens["S1"]), media \in GenMedia :
       Let(generate(gens["S1"], data, media), LAMBDA r :
         /\ ~r.diverges
         /\ gens' = [gens EXCEPT !["S1"].next_msg_id = r.next_msg_id]
         /\ sent' = [sent EXCEPT !["S1"] = Some(data)]
         /\ air' = air \o [i \in 1..Len(r.pdus) |->
                             [src |-> "S1", bytes |-> r.pdus[i], fed |-> FALSE]]
         /\ output' = Append(output,
              [data |-> data, media |-> media, before |-> gens["S1"].next_msg_id,
               pdus |-> r.pdus, n_ann |-> r.n_ann, full_encs |-> r.full_encs]))
  /\ last' = [NoOp EXCEPT !.op = "generate"]
  /\ UNCHANGED <<d, log, popped, best, rq_overhead, input>>

NextGen == GenerateCall

SpecGen == InitGen /\ [][NextGen]_vars

\* ---- generate on stacks with sizes and counts of zero ----
MaxTermCalls == 2
MaxTermLen == 2

\* max_payload_size unset, 0 or 1, with no stack or a stack that chunks by
\* 0 or 1, repeats 0 times or appends a CRC32; announced or not
TermConfigs ==
  {[max |-> m, encs |-> e, ann |-> a] :
     m \in {None, Some(0), Some(1)},
     e \in {None, Some(<<Chunk(0), H>>), Some(<<Chunk(1), H>>), Some(<<H, Repeat(0)>>),
            Some(<<H, Crc32>>)},
     a \in {None, Some(<<H>>)}}

InitTerm ==
  /\ \E c \in TermConfigs : gens = [s \in {"S1"} |-> NewGen(s, c)]
  /\ sent = [s \in {"S1"} |-> None]
  /\ InitCommon
  /\ NoRq
  /\ NoCall

\* generate(data, None): output lists, for every call so far, its payload
\* and either what it returned or that its Chunk loop never ends; nothing
\* follows a call that does not return
GenerateOrHang ==
  /\ Len(output) < MaxTermCalls
  /\ \A k \in 1..Len(output) : ~output[k].diverges
  /\ \E data \in SeqsFrom0(Bytes, MaxTermLen) :
       Let(generate(gens["S1"], data, None), LAMBDA r :
         IF r.diverges
         THEN /\ output' = Append(output, [data |-> data, diverges |-> TRUE,
                                            pdus |-> <<>>, n_ann |-> 0])
              /\ UNCHANGED <<gens, sent, air>>
         ELSE /\ gens' = [gens EXCEPT !["S1"].next_msg_id = r.next_msg_id]
              /\ sent' = [sent EXCEPT !["S1"] = Some(data)]
              /\ air' = air \o [i \in 1..Len(r.pdus) |->
                                  [src |-> "S1", bytes |-> r.pdus[i], fed |-> FALSE]]
              /\ output' = Append(output, [data |-> data, diverges |-> FALSE,
                                            pdus |-> r.pdus, n_ann |-> r.n_ann]))
  /\ last' = [NoOp EXCEPT !.op = "generate"]
  /\ UNCHANGED <<d, log, popped, best, rq_overhead, input>>

NextTerm == GenerateOrHang

SpecTerm == InitTerm /\ [][NextTerm]_vars

\* ---- resolve_encodings on its own ----
MaxStack == 3

\* the configured encoding lists: up to MaxStack entries
Stacks == SeqsFrom0({H, Chunk(1), Gzip, Crc32}, MaxStack)

InitResolve ==
  /\ gens = <<>>
  /\ sent = <<>>
  /\ InitCommon
  /\ NoRq
  /\ input \in {PDUGenerator_new(Some("S1"), None, m, Some(e), None, 1) :
                  m \in {None} \cup {Some(n) : n \in 1..MaxPayload}, e \in Stacks}
  /\ output = None

\* self.resolve_encodings()
ResolveCall ==
  /\ output = None
  /\ output' = Some(resolve_encodings(input))
  /\ UNCHANGED <<gens, sent, air, d, log, popped, best, last, rq_overhead, input>>

NextResolve == ResolveCall

SpecResolve == InitResolve /\ [][NextResolve]_vars

\* ---- the CBOR form of an encoding list on its own ----
MaxList == 2

\* the entries of the lists: OtherInteger only with the integers try_from
\* has no variant for, OtherString only with the words it has none for
Entries ==
  {H, Gzip, Chunk(1), RaptorQ(2, 1, 0), Asm(<<>>),
   OtherString("foo"), OtherInteger(7), OtherInteger(NoId)}

InitWire ==
  /\ gens = <<>>
  /\ sent = <<>>
  /\ InitCommon
  /\ NoRq
  /\ input \in SeqsFrom0(Entries, MaxList)
  /\ output = None

\* minicbor::to_vec(&list) then minicbor::decode
WireCall ==
  /\ output = None
  /\ output' = Some(EncodingListWire(input))
  /\ UNCHANGED <<gens, sent, air, d, log, popped, best, last, rq_overhead, input>>

NextWire == WireCall

SpecWire == InitWire /\ [][NextWire]_vars

\* ---- pack and unpack on their own ----
MaxBody == 1

\* the headers given to pack: every combination of the fields below
PackHeaders ==
  {[DefaultHeader EXCEPT !.message_id = id, !.content_format = cf, !.content_type = ct,
                         !.content_encoding = ce, !.payload_size = ps] :
     id \in {None, Some(1)},
     cf \in {None, Some(0), Some(50)},
     ct \in {None, Some("application/json"), Some("text/plain;charset=utf-8"),
             Some("x/y"), Some(AnnType)},
     ce \in {None, Some(<<H>>), Some(<<Chunk(1), H>>), Some(<<Chunk(1)>>),
             Some(<<OtherInteger(NoId), H>>)},
     ps \in {None, Some(5)}}

InitPack ==
  /\ gens = <<>>
  /\ sent = <<>>
  /\ InitCommon
  /\ NoRq
  /\ input \in [h : PackHeaders, body : SeqsFrom0({B(1)}, MaxBody)]
  /\ output = <<>>

\* pack(&h, &body)
PackCall ==
  /\ output = <<>>
  /\ output' = <<[op |-> "pack", r |-> pack(input.h, input.body)]>>
  /\ UNCHANGED <<gens, sent, air, d, log, popped, best, last, rq_overhead, input>>

\* unpack of the bytes pack returned
UnpackPacked ==
  /\ Len(output) = 1 /\ output[1].op = "pack" /\ output[1].r.ok
  /\ output' = Append(output, [op |-> "unpack", r |-> unpack(output[1].r.data)])
  /\ UNCHANGED <<gens, sent, air, d, log, popped, best, last, rq_overhead, input>>

\* unpack of minicbor::to_vec(&h) followed by the body: a header that did
\* not go through pack
UnpackEncoded ==
  /\ output = <<>>
  /\ output' = <<[op |-> "unpack_raw", r |-> unpack(<<HdrTok(input.h)>> \o input.body)]>>
  /\ UNCHANGED <<gens, sent, air, d, log, popped, best, last, rq_overhead, input>>

NextPack == PackCall \/ UnpackPacked \/ UnpackEncoded

SpecPack == InitPack /\ [][NextPack]_vars

\* ---- lt_encode and lt_decode on their own ----
MaxLtLen == 6
MaxLtRepair == 4

\* the packets of the selection sel, in ascending or descending ESI order
Picked(packets, sel, rev) ==
  Let(SortedSeq(sel), LAMBDA order :
    [i \in 1..Len(order) |-> packets[IF rev THEN order[Len(order) + 1 - i] ELSE order[i]]])

\* the data of L bytes, the K = L packets out of the K + R encoded with mtu 1
\* that reach the decoder, and the order they arrive in
InitLt ==
  /\ gens = <<>>
  /\ sent = <<>>
  /\ InitCommon
  /\ NoRq
  /\ \E n \in 1..MaxLtLen :
       input \in [data : [1..n -> Bytes],
                  sel : {S \in SUBSET (1..(n + MaxLtRepair)) : Cardinality(S) = n},
                  rev : BOOLEAN]
  /\ output = None

\* lt_decode(the selected packets of lt_encode(data, L, 1, R), L, 1)
LtCall ==
  /\ output = None
  /\ output' = Some(lt_decode(Picked(lt_encode(input.data, Len(input.data), 1, MaxLtRepair),
                                     input.sel, input.rev),
                              Len(input.data), 1))
  /\ UNCHANGED <<gens, sent, air, d, log, popped, best, last, rq_overhead, input>>

NextLt == LtCall

SpecLt == InitLt /\ [][NextLt]_vars

\* ---- LTDecoder fed packet by packet ----
MaxLtSeqLen == 5
MaxLtSeqRepair == 3
MaxLtFeeds == 6

\* the data of L bytes and the symbol size; a fresh decoder for them
InitLtSeq ==
  /\ gens = <<>>
  /\ sent = <<>>
  /\ InitCommon
  /\ NoRq
  /\ \E n \in 1..MaxLtSeqLen, mtu \in {1, 2} :
       /\ input \in [data : [1..n -> Bytes], mtu : {mtu}]
       /\ output = [st |-> LTDecoder_new(n, mtu), fed |-> 0, esi |-> -1, held |-> 0,
                  ret |-> FALSE]

\* LTDecoder::decode on any packet of the encoder, source or repair, new or
\* already seen
LtFeed ==
  /\ output.fed < MaxLtFeeds
  /\ \E esi \in 0..(output.st.k + MaxLtSeqRepair - 1) :
       Let(LTDecoder_decode(output.st, esi, lt_payload(input.data, input.mtu, esi)), LAMBDA st :
         output' = [st |-> st, fed |-> output.fed + 1, esi |-> esi,
                    held |-> Cardinality(DOMAIN output.st.graph),
                    ret |-> Cardinality(DOMAIN st.blocks) = st.k])
  /\ UNCHANGED <<gens, sent, air, d, log, popped, best, last, rq_overhead, input>>

NextLtSeq == LtFeed

SpecLtSeq == InitLtSeq /\ [][NextLtSeq]_vars

\* ---- the Golay codeword functions on their own ----
MaxFlips == 3

\* the 12-bit data words tried
GolayWords == {BitsOf(\h000), BitsOf(\h123), BitsOf(\hABC)}

InitGolay ==
  /\ gens = <<>>
  /\ sent = <<>>
  /\ InitCommon
  /\ NoRq
  /\ input \in [data : GolayWords,
                 e : {e \in SUBSET (0..23) : Cardinality(e) <= MaxFlips}]
  /\ output = None

\* decode_codeword(encode_codeword(data) ^ e)
GolayCall ==
  /\ output = None
  /\ output' = Some(decode_codeword(WordXor(encode_codeword(input.data), input.e)))
  /\ UNCHANGED <<gens, sent, air, d, log, popped, best, last, rq_overhead, input>>

NextGolay == GolayCall

SpecGolay == InitGolay /\ [][NextGolay]_vars

\* ---- conv_encode and conv_decode on their own ----
MaxConvLen == 2

\* the byte values of the inputs
ConvBytes == {B(0), B(\hA5), B(\hFF)}

\* the bytes data with the bit pos (0 is the most significant bit of the
\* first byte) flipped
FlipBit(data, pos) ==
  [i \in 1..Len(data) |->
     IF i # pos \div 8 + 1 THEN data[i]
     ELSE B(IF (data[i].v \div 2^(7 - (pos % 8))) % 2 = 1
            THEN data[i].v - 2^(7 - (pos % 8)) ELSE data[i].v + 2^(7 - (pos % 8)))]

\* a non-empty input and a bit position of its encoding
InitConv ==
  /\ gens = <<>>
  /\ sent = <<>>
  /\ InitCommon
  /\ NoRq
  /\ \E data \in SeqsFrom0(ConvBytes, MaxConvLen) \ {<<>>} :
       \E pos \in 0..(8 * Len(conv_encode(data)) - 1) :
         input = [data |-> data, pos |-> pos]
  /\ output = None

\* conv_decode(conv_encode(data) with one bit flipped)
ConvCall ==
  /\ output = None
  /\ output' = Some(conv_decode(FlipBit(conv_encode(input.data), input.pos)))
  /\ UNCHANGED <<gens, sent, air, d, log, popped, best, last, rq_overhead, input>>

NextConv == ConvCall

SpecConv == InitConv /\ [][NextConv]_vars

\* ---- scr_xor on its own ----
MaxScrLen == 2

\* 0, 0x3, 0x110, 0x1FF, 0x10800 and 1 << 63
ScrPolys == {{}, {0, 1}, {4, 8}, 0..8, {11, 16}, {63}}

\* no seed, 0, 1, 0x1FF and (1 << 63) | 1
ScrSeeds == {None, Some({}), Some({0}), Some(0..8), Some({0, 63})}

InitScr ==
  /\ gens = <<>>
  /\ sent = <<>>
  /\ InitCommon
  /\ NoRq
  /\ input \in [data : SeqsFrom0(ConvBytes, MaxScrLen), poly : ScrPolys, seed : ScrSeeds]
  /\ output = <<>>

\* the transform applied to the data, then to what it returned
ScrCall ==
  /\ Len(output) < 2
  /\ output' = Append(output,
                      scr_xor(IF output = <<>> THEN input.data ELSE output[Len(output)],
                              input.poly, input.seed))
  /\ UNCHANGED <<gens, sent, air, d, log, popped, best, last, rq_overhead, input>>

NextScr == ScrCall

SpecScr == InitScr /\ [][NextScr]_vars

\* ---- the random stacks on their own ----
MaxEncCalls == 2

\* every stream of MaxDraws draws
Seeds == [1..MaxDraws -> 0..DrawLevels]

InitEnc ==
  /\ gens = <<>>
  /\ sent = <<>>
  /\ InitCommon
  /\ NoRq
  /\ input \in Seeds
  /\ output = <<>>

GenerateEncoding ==
  /\ Len(output) < MaxEncCalls
  /\ output' = Append(output, [op |-> "generate_encoding", r |-> generate_encoding(input)])
  /\ UNCHANGED <<gens, sent, air, d, log, popped, best, last, rq_overhead, input>>

GenerateSensibleEncoding ==
  /\ Len(output) < MaxEncCalls
  /\ output' = Append(output, [op |-> "generate_sensible_encoding",
                                r |-> generate_sensible_encoding(input)])
  /\ UNCHANGED <<gens, sent, air, d, log, popped, best, last, rq_overhead, input>>

NextEnc == GenerateEncoding \/ GenerateSensibleEncoding

SpecEnc == InitEnc /\ [][NextEnc]_vars

\* ---- a deframer under sustained loss ----
\* the number of packets the holding buffer is meant to keep at most
HoldCap == 100

\* a packet no pipeline decodes
Undecodable == <<B(1)>>

\* the announcement of a stack with a combiner after the boundary
HoldAnn == Ann(5, <<H, Repeat(2)>>)

\* receive_bytes on the announcement, before any other packet
ReceiveAnnouncement ==
  /\ air = <<>>
  /\ DoReceive(HoldAnn)
  /\ air' = Append(air, [src |-> "A", bytes |-> HoldAnn, fed |-> TRUE])
  /\ UNCHANGED <<gens, sent, popped, rq_overhead, input, output>>

\* receive_bytes on one more undecodable packet
ReceiveUndecodable ==
  /\ Len(d.not_yet_decoded) <= HoldCap
  /\ DoReceive(Undecodable)
  /\ air' = Append(air, [src |-> "A", bytes |-> Undecodable, fed |-> TRUE])
  /\ UNCHANGED <<gens, sent, popped, rq_overhead, input, output>>

NextHold == ReceiveAnnouncement \/ ReceiveUndecodable

SpecHold == Init /\ [][NextHold]_vars

\* ---- packets that only Phase 2 recovers ----
MaxPhase2Calls == 5

\* the stack of the message sent as RaptorQ symbols of its PDU
PieceStack == <<H, RaptorQ(2, 1, 0)>>

\* chunk 0 of a two-chunk message with Original-Message-Id 3 under
\* PieceStack, before the erasure code
PiecePdu == pack(Hd(3, Some(3), Some(0), Some(2), Some(PieceStack)), <<B(1)>>).data

\* the two symbols of PiecePdu
Pieces == {rq_encode(PiecePdu, 2, 1, 0)[i] : i \in 1..2}

\* the announcements of [h, gzip] for message 1 and of PieceStack for
\* message 3, the two gzipped chunks of message 1, the symbols of the PDU of
\* message 3, a packet that is no PDU
Phase2Packets ==
  {Ann(1, <<H, Gzip>>), Ann(3, PieceStack),
   gzip_compress(Frag(0, 1, FALSE)), gzip_compress(Frag(1, 1, FALSE)), <<B(1)>>}
  \cup Pieces

\* receive_bytes on a packet of Phase2Packets
ReceivePhase2 ==
  /\ Len(air) < MaxPhase2Calls
  /\ \E b \in Phase2Packets :
       /\ DoReceive(b)
       /\ air' = Append(air, [src |-> "A", bytes |-> b, fed |-> TRUE])
  /\ UNCHANGED <<gens, sent, popped, rq_overhead, input, output>>

NextPhase2 == ReceivePhase2

SpecPhase2 == Init /\ [][NextPhase2]_vars

\* ---- PDUs whose Payload-Size and body disagree ----
MaxSizeCalls == 2
MaxSizeBody == 2

\* chunk 0 of a two-chunk message with Original-Message-Id 5 whose header
\* carries Payload-Size size in front of body
SizePdu(size, body) ==
  <<HdrTok([Hd(5, Some(5), Some(0), Some(2), None) EXCEPT !.payload_size = Some(size)])>>
  \o body

SizePdus == {SizePdu(n, [i \in 1..k |-> B(1)]) : n \in 0..MaxSizeBody, k \in 0..MaxSizeBody}

\* the PDUs as they are, and gzipped for a sender announced with [h, gzip]
SizePackets ==
  SizePdus \cup {gzip_compress(b) : b \in SizePdus} \cup {Ann(5, <<H, Gzip>>)}

\* receive_bytes on a packet of SizePackets
ReceiveSized ==
  /\ Len(air) < MaxSizeCalls
  /\ \E b \in SizePackets :
       /\ DoReceive(b)
       /\ air' = Append(air, [src |-> "A", bytes |-> b, fed |-> TRUE])
  /\ UNCHANGED <<gens, sent, popped, rq_overhead, input, output>>

NextSize == ReceiveSized

SpecSize == Init /\ [][NextSize]_vars

\* ---- PDUs whose own stack and announced stack differ ----
MaxPrioCalls == 3

\* chunk 0 of the two-chunk message with Original-Message-Id 1, its header
\* carrying the stack ce, followed by the CRC32 of the PDU
CrcPdu(ce) ==
  Let(pack(Hd(1, Some(1), Some(0), Some(2), ce), <<B(1)>>).data, LAMBDA pdu :
    Append(pdu, crc32_std(pdu)))

\* announcements of [h, crc32] and of [h, gzip] for message 1; the PDU with
\* a CRC32 whose header names no stack, [h, crc32] or [h, gzip]; the PDU
\* without CRC32 and without stack
PrioPackets ==
  {Ann(1, <<H, Crc32>>), Ann(1, <<H, Gzip>>),
   CrcPdu(None), CrcPdu(Some(<<H, Crc32>>)), CrcPdu(Some(<<H, Gzip>>)),
   Frag(0, 1, FALSE)}

\* receive_bytes on a packet of PrioPackets
ReceivePrio ==
  /\ Len(air) < MaxPrioCalls
  /\ \E b \in PrioPackets :
       /\ DoReceive(b)
       /\ air' = Append(air, [src |-> "A", bytes |-> b, fed |-> TRUE])
  /\ UNCHANGED <<gens, sent, popped, rq_overhead, input, output>>

NextPrio == ReceivePrio

SpecPrio == Init /\ [][NextPrio]_vars

\* ---- sessions whose reassembly fails ----
MaxSessionCalls == 4

\* chunk c of the two-chunk message with Original-Message-Id 1 carrying the
\* plain byte x, its header naming the stack ce
SessionFrag(c, x, ce) == pack(Hd(1 + c, Some(1), Some(c), Some(2), ce), <<B(x)>>).data

\* fragments without a stack, and fragments that name [gzip, h] although
\* their bytes were never compressed
SessionPackets ==
  {SessionFrag(c, x, ce) : c \in {0, 1}, x \in {1, 2}, ce \in {None, Some(<<Gzip, H>>)}}

\* receive_bytes on a packet of SessionPackets
ReceiveFragment ==
  /\ Len(air) < MaxSessionCalls
  /\ \E b \in SessionPackets :
       /\ DoReceive(b)
       /\ air' = Append(air, [src |-> "A", bytes |-> b, fed |-> TRUE])
  /\ UNCHANGED <<gens, sent, popped, rq_overhead, input, output>>

NextSession == ReceiveFragment

SpecSession == Init /\ [][NextSession]_vars

\* ---- one sender whose stack repeats the PDUs ----
MaxRepeat == 3

\* stacks with a post-boundary repeat(n), with and without a CRC32 under it,
\* announced or not; no max_payload, so that the message fits in one PDU
RepeatConfigs ==
  {[max |-> None, encs |-> Some(<<H>> \o inner \o <<Repeat(n)>>), ann |-> a] :
     inner \in {<<>>, <<Crc32>>}, n \in 1..MaxRepeat, a \in {None, Some(<<H>>)}}

InitRepeat ==
  /\ \E c \in RepeatConfigs : gens = [s \in {"S1"} |-> NewGen(s, c)]
  /\ sent = [s \in {"S1"} |-> None]
  /\ InitCommon
  /\ NoRq
  /\ NoCall

NextRepeat == Generate("S1", Payloads) \/ Receive \/ NextEvent

SpecRepeat == InitRepeat /\ [][NextRepeat]_vars

\* ---- packets of a sender that does not follow the generator ----
MaxHostileCalls == 3

\* a PDU whose header has no Message-Id, the Content-Type of announcements
\* and a Content-Format
NoIdPdu ==
  <<HdrTok([DefaultHeader EXCEPT !.content_type = Some(AnnType),
                                 !.content_format = Some(50)]), B(1)>>

\* chunk 0 of 2 whose header names a pre-boundary rq(2, 0, 0)
ZeroMtuPdu == pack(Hd(1, Some(1), Some(0), Some(2), Some(<<RaptorQ(2, 0, 0), H>>)), <<B(1)>>).data

\* the three, an announcement of [h, repeat(0)], a well-formed fragment and
\* two packets no stack decodes
HostilePackets ==
  {NoIdPdu, ZeroMtuPdu, Ann(5, <<H, Repeat(0)>>), Frag(0, 1, FALSE), <<B(1)>>, <<B(2)>>}

\* receive_bytes on a packet of HostilePackets
ReceiveHostile ==
  /\ Len(air) < MaxHostileCalls
  /\ \E b \in HostilePackets :
       /\ DoReceive(b)
       /\ air' = Append(air, [src |-> "A", bytes |-> b, fed |-> TRUE])
  /\ UNCHANGED <<gens, sent, popped, rq_overhead, input, output>>

NextHostile == ReceiveHostile

SpecHostile == Init /\ [][NextHostile]_vars

\* ---- Header::merge on its own ----
MaxSet == 2

MergeFields == {MergeOrder[i][1] : i \in 1..Len(MergeOrder)}

\* two values of the type of each field
ValuesOf(f) ==
  CASE f \in {"src_callsign", "dst_callsign"} -> {"A", "B"}
    [] f = "content_type" -> {"text/a", "text/b"}
    [] f = "content_encoding" -> {<<Gzip>>, <<Crc32>>}
    [] f \in {"repr_digest", "content_digest"} -> {<<B(1)>>, <<B(2)>>}
    [] OTHER -> {1, 2}

\* the headers with at most MaxSet of the merged fields set
RECURSIVE HeadersOver(_, _)
HeadersOver(fields, budget) ==
  IF fields = {} THEN {DefaultHeader}
  ELSE LET f == CHOOSE x \in fields : TRUE
       IN HeadersOver(fields \ {f}, budget)
          \cup (IF budget = 0 THEN {}
                ELSE {[h EXCEPT ![f] = Some(x)] :
                        h \in HeadersOver(fields \ {f}, budget - 1), x \in ValuesOf(f)})

MergeHeaders ==
  {[h EXCEPT !.message_id = Some(1)] : h \in HeadersOver(MergeFields, MaxSet)}

InitMerge ==
  /\ gens = <<>>
  /\ sent = <<>>
  /\ InitCommon
  /\ NoRq
  /\ input \in MergeHeaders \X MergeHeaders
  /\ output = None

\* self.merge(&other): the returned Result and self after the call
MergeCall ==
  /\ output = None
  /\ output' = Some(merge(input[1], input[2]))
  /\ UNCHANGED <<gens, sent, air, d, log, popped, best, last, rq_overhead, input>>

NextMerge == MergeCall

SpecMerge == InitMerge /\ [][NextMerge]_vars

(* ---------------- observers used by the properties --------------------- *)
Items(s) == {i \in 1..Len(air) : air[i].src = s}
FedItems(s) == {i \in Items(s) : air[i].fed}
AllFed(s) == IsSome(sent[s]) /\ FedItems(s) = Items(s)
Messages == SelectSeq(log, LAMBDA e : e.kind = "Message")

\* sender s is Generator(src, max_payload = n) without an explicit stack
IsChunkCfg(s) ==
  /\ IsSome(gens[s].max_payload_size)
  /\ gens[s].encodings = <<>>
  /\ gens[s].announcement = None

LongPayload(s) == IsSome(sent[s]) /\ Len(Unwrap(sent[s])) > Unwrap(gens[s].max_payload_size)

\* the payload itself parses as an HQFBP PDU that carries a Message-Id
ParsesAsPdu(data) == unpack(data).ok /\ IsSome(unpack(data).h.message_id)

NewEvents == SubSeq(d.events, Len(last.pre.events) + 1, Len(d.events))

\* the payloads of the PDUs that the last receive_bytes call accepted as data
\* PDUs, in the order it accepted them
Accepted == SelectSeq(d.processed, LAMBDA e : ~e.is_ann)

Kinds(evs) == [i \in 1..Len(evs) |-> evs[i].kind]

HasStack(s, encs, ann) == gens[s].encodings = encs /\ gens[s].announcement = ann

\* C5 (as claimed): once every PDU of one generate call without announcement
\* was fed once, for a non-empty payload, there is exactly one Message event,
\* also when the stack contains repeat(n).
C5_AsClaimed ==
  (/\ AllFed("S1") /\ gens["S1"].announcement = None
   /\ Unwrap(sent["S1"]) # <<>>) => Len(Messages) = 1

\* C8 (as claimed): with the stack [H, CRC32] and the announcement stack [H],
\* feeding the announcement PDU then the data PDU yields exactly PDU
\* (announcement), PDU (data), Message (data).
C8_AsClaimed ==
  (/\ HasStack("S1", <<H, Crc32>>, Some(<<H>>))
   /\ AllFed("S1") /\ Len(air) = 2 /\ Unwrap(sent["S1"]) # <<>>
   /\ last.op = "receive" /\ last.bytes = air[2].bytes)
  => /\ Kinds(log) = <<"PDU", "PDU", "Message">>
     /\ log[3].payload = Unwrap(sent["S1"])

\* the Message events attributed to sender s
MessagesOf(s) == SelectSeq(Messages, LAMBDA e : e.header.src_callsign = Some(s))

\* fragment c of what sender s split its payload into
ChunkOf(s, c) ==
  LET n == Unwrap(gens[s].max_payload_size)
      data == Unwrap(sent[s])
  IN SubSeq(data, c * n + 1, Min((c + 1) * n, Len(data)))

\* both senders sent a payload longer than max_payload
BothChunked ==
  \A s \in {"S1", "S2"} : IsChunkCfg(s) /\ LongPayload(s)

\* one Message event per sender whose PDUs were all fed, with that sender's
\* Src-Callsign and payload, and every stored fragment belongs to the sender
\* of its session key
TwoSessions ==
  /\ \A s \in {"S1", "S2"} :
       /\ Len(MessagesOf(s)) = (IF AllFed(s) THEN 1 ELSE 0)
       /\ \A i \in 1..Len(MessagesOf(s)) : MessagesOf(s)[i].payload = Unwrap(sent[s])
  /\ Len(Messages) = Len(MessagesOf("S1")) + Len(MessagesOf("S2"))
  /\ \A key \in DOMAIN d.sessions :
       \E s \in {"S1", "S2"} :
         /\ key[1] = Some(s)
         /\ \A c \in DOMAIN d.sessions[key].chunks :
              d.sessions[key].chunks[c].p = ChunkOf(s, c)

C4_AsClaimed == last.op = "receive" => (last.n_pdu <= 1 /\ last.n_msg <= 1)

\* C6: the fragment stored for a Chunk-Id of a session is the earliest copy of
\* the highest quality among the copies of that (session, Chunk-Id) processed
\* since the session was created: its quality is at least that of every such
\* copy, and a copy of equal quality does not replace it.
C6_BestCopyStored ==
  \A key \in DOMAIN d.sessions :
    \A c \in DOMAIN d.sessions[key].chunks :
      /\ <<key, c>> \in DOMAIN best
      /\ d.sessions[key].chunks[c].q = best[<<key, c>>].q
      /\ d.sessions[key].chunks[c].p = best[<<key, c>>].p

\* the session key and Chunk-Id of the copy the last call processed were
\* already stored before the call
ProcessedCopy(e) ==
  /\ ~e.is_ann
  /\ e.key \in DOMAIN last.pre.sessions
  /\ e.chunk_id \in DOMAIN last.pre.sessions[e.key].chunks

StoredBefore(e) == last.pre.sessions[e.key].chunks[e.chunk_id]

\* a copy of lower quality, then one of higher quality with another payload
\* that replaced it, then one of that same quality that did not
C6_Witness ==
  /\ last.op = "receive" /\ Len(air) = 3
  /\ air[1].bytes = Frag(0, 1, FALSE) /\ air[2].bytes = Frag(0, 2, TRUE)
  /\ air[3].bytes = Frag(0, 1, TRUE)
  /\ Len(d.processed) = 1 /\ ProcessedCopy(d.processed[1])
  /\ ~d.processed[1].stored
  /\ d.sessions[<<Some("A"), 1>>].chunks[0] = [p |-> <<B(2)>>, q |-> 1000]

\* C7 (as claimed): a call that processes one further copy of a stored
\* (session, Chunk-Id) and replaces the stored fragment with it adds no event.
C7_AsClaimed ==
  (/\ last.op = "receive" /\ Len(d.processed) = 1
   /\ ProcessedCopy(d.processed[1]) /\ d.processed[1].stored
   /\ d.processed[1].q > StoredBefore(d.processed[1]).q)
  => NewEvents = <<>>

\* the announcements the last call accepted: (Src, Message-Id, encodings)
AnnouncedBy(e) ==
  IF e.is_ann /\ e.payload # <<>> /\ e.payload[1].t = "hdr"
     /\ IsSome(e.payload[1].v.message_id) /\ IsSome(e.payload[1].v.content_encoding)
  THEN Some(<<e.key[1], Unwrap(e.payload[1].v.message_id),
              Unwrap(e.payload[1].v.content_encoding)>>)
  ELSE None

\* C9: after a call that accepted an announcement PDU of source s whose
\* payload is a CBOR header with Message-Id m and Content-Encoding e, the
\* announcement table maps (s, m) to e; the call created no session and
\* appended no Message event.
C9_AnnouncementRecorded ==
  last.op = "receive" =>
    \A i \in 1..Len(d.processed) :
      LET a == AnnouncedBy(d.processed[i])
      IN IsSome(a) =>
           /\ <<Unwrap(a)[1], Unwrap(a)[2]>> \in DOMAIN d.announcements
           /\ d.announcements[<<Unwrap(a)[1], Unwrap(a)[2]>>] = Unwrap(a)[3]
           /\ d.sessions = last.pre.sessions
           /\ last.n_msg = 0

\* the announcement for Message-Id 5 was accepted twice, with different
\* stacks: the table holds the later one
C9_Witness ==
  /\ last.op = "receive" /\ Len(air) = 2
  /\ air[1].bytes = Ann(5, <<H, Gzip>>) /\ air[2].bytes = Ann(5, <<H, Crc32>>)
  /\ Len(d.processed) = 1 /\ IsSome(AnnouncedBy(d.processed[1]))
  /\ d.announcements[<<Some("A"), 5>>] = <<H, Crc32>>
  /\ last.pre.announcements[<<Some("A"), 5>>] = <<H, Gzip>>

\* C10 (as claimed): no session stays stored once the number of distinct
\* chunks stored in it reached its Total-Chunks, whatever the Total-Chunks
\* value: it was completed and removed in the call that stored the chunk.
C10_AsClaimed ==
  \A key \in DOMAIN d.sessions :
    Cardinality(DOMAIN d.sessions[key].chunks) < d.sessions[key].total_chunks

\* the rq(len, mtu, r) entry sender s is configured with, and its threshold
RqOf(s) == gens[s].encodings[1]
RqK(s) == DivCeil(RqOf(s)[2], RqOf(s)[3])

\* the number of distinct Chunk-Ids stored in the session of the processed
\* copy e once e was stored
StoredCount(e) ==
  Cardinality((IF e.key \in DOMAIN last.pre.sessions
               THEN DOMAIN last.pre.sessions[e.key].chunks ELSE {}) \cup {e.chunk_id})

\* C11: for a sender with the stack [rq(len, mtu, r), H], whose PDUs are fed
\* in any order: a call emits a Message event only when it stored the
\* ceil(len/mtu)-th distinct Chunk-Id of the session; reassembly is run (and
\* the session removed) by the call that stores the ceil(len/mtu)-th distinct
\* Chunk-Id, so no stored session reaches that count; and once exactly the
\* announcement and the first ceil(len/mtu) data PDUs were fed there is a
\* Message event.
C11_RqThreshold ==
  IsSome(sent["S1"]) =>
    /\ (last.op = "receive" =>
          /\ \A i \in 1..Len(Accepted) :
               Accepted[i].complete <=> StoredCount(Accepted[i]) >= RqK("S1")
          /\ (last.n_msg > 0 =>
                \E i \in 1..Len(Accepted) : StoredCount(Accepted[i]) >= RqK("S1")))
    /\ \A key \in DOMAIN d.sessions :
         Cardinality(DOMAIN d.sessions[key].chunks) < RqK("S1")
    /\ (FedItems("S1") = 1..(RqK("S1") + 1) => Len(Messages) >= 1)

\* the announcement and the first 2 of the 3 data PDUs of an rq(_, _, 1)
\* sender were fed, the announcement first: the second data PDU completed the
\* session below its Total-Chunks and the Message carries the payload sent
C11_Witness ==
  /\ IsSome(sent["S1"]) /\ RqK("S1") = 2 /\ RqOf("S1")[4] = 1 /\ Len(air) = 4
  /\ FedItems("S1") = {1, 2, 3}
  /\ Kinds(log) = <<"PDU", "PDU", "Message">>
  /\ log[2].header.total_chunks = Some(3)
  /\ last.op = "receive" /\ last.bytes = air[3].bytes
  /\ Unwrap(sent["S1"]) = <<B(1), B(1)>>
  /\ log[3].payload = Unwrap(sent["S1"])

\* the headers recorded in the session that the one data PDU accepted by the
\* last call completed: those recorded before the call, then its own
CompletingHeaders ==
  (IF Accepted[1].key \in DOMAIN last.pre.sessions
   THEN last.pre.sessions[Accepted[1].key].headers ELSE <<>>)
  \o <<NewEvents[1].header>>

\* two of the headers hs set Src-Callsign, Repr-Digest or File-Size to
\* different values
Disagree(hs) ==
  \E i, j \in 1..Len(hs) :
    \E f \in {"src_callsign", "repr_digest", "file_size"} :
      IsSome(hs[i][f]) /\ IsSome(hs[j][f]) /\ hs[i][f] # hs[j][f]

\* C12 (as claimed): a call whose data PDU completes a session whose recorded
\* headers disagree on Src-Callsign, Repr-Digest or File-Size appends no
\* Message event.
C12_AsClaimed ==
  (/\ last.op = "receive" /\ Len(Accepted) = 1
   /\ Accepted[1].stored /\ Accepted[1].complete
   /\ Disagree(CompletingHeaders))
  => last.n_msg = 0

\* C13: self.merge(other) returns an error exactly when Src-Callsign,
\* Repr-Digest or File-Size is set in both headers with different values;
\* otherwise it returns Ok and every merged field of self keeps its value if
\* it was set and takes other's value if it was not, whatever the two headers
\* say on the other fields; the chunking fields of self are left alone.
C13_Merge ==
  IsSome(output) =>
    LET self == input[1]
        other == input[2]
        r == Unwrap(output)
    IN /\ r.ok <=> ~Disagree(<<self, other>>)
       /\ r.ok => \A f \in MergeFields :
                    r.h[f] = (IF IsSome(self[f]) THEN self[f] ELSE other[f])
       /\ \A f \in DOMAIN DefaultHeader \ MergeFields : r.h[f] = self[f]

\* the two headers disagree on Dst-Callsign and the merge succeeded, keeping
\* self's Dst-Callsign and taking File-Size from other
C13_Witness ==
  /\ IsSome(output) /\ Unwrap(output).ok
  /\ input[1].dst_callsign = Some("A") /\ input[2].dst_callsign = Some("B")
  /\ input[1].file_size = None /\ input[2].file_size = Some(2)
  /\ Unwrap(output).h.dst_callsign = Some("A")
  /\ Unwrap(output).h.file_size = Some(2)

\* C14 (as claimed): a receive_bytes call with a zero-length byte string
\* appends no event and leaves the sessions, the announcement table and the
\* holding buffer as they were.
C14_AsClaimed ==
  (last.op = "receive" /\ last.bytes = Empty) =>
    /\ NewEvents = <<>>
    /\ d.sessions = last.pre.sessions
    /\ d.announcements = last.pre.announcements
    /\ d.not_yet_decoded = last.pre.not_yet_decoded

\* the pre-boundary entries of the resolved stack of sender s
PreOf(s) ==
  {split_encs(resolve_encodings(gens[s])).pre[i] :
     i \in 1..Len(split_encs(resolve_encodings(gens[s])).pre)}

\* the header h has none of the chunking fields, and its Content-Encoding
\* holds neither H nor a pre-boundary entry of sender s
Stripped(h, s) ==
  /\ h.message_id = None /\ h.chunk_id = None
  /\ h.original_message_id = None /\ h.total_chunks = None
  /\ \A j \in 1..Len(ce_list_of(h)) :
       ~IsH(ce_list_of(h)[j]) /\ ce_list_of(h)[j] \notin PreOf(s)

HeaderOf(pdu) == pdu[1].v

\* the Message-Ids of the PDUs of the calls cs, in the order returned
RECURSIVE IdsOf(_)
IdsOf(cs) ==
  IF cs = <<>> THEN <<>>
  ELSE [i \in 1..Len(Head(cs).pdus) |-> Unwrap(HeaderOf(Head(cs).pdus[i]).message_id)]
       \o IdsOf(Tail(cs))

\* the data PDUs of the call c
DataPdus(c) == SubSeq(c.pdus, c.n_ann + 1, Len(c.pdus))

\* C16 (as claimed): the Message-Ids of all the PDUs returned by the generate
\* calls of one generator are pairwise distinct and increase from each PDU to
\* the next, and the data PDUs of one call carry consecutive ids.
C16_AsClaimed ==
  /\ \A i, j \in 1..Len(IdsOf(output)) : i < j => IdsOf(output)[i] < IdsOf(output)[j]
  /\ \A k \in 1..Len(output) :
       \A i \in 2..Len(DataPdus(output[k])) :
         Unwrap(HeaderOf(DataPdus(output[k])[i]).message_id)
           = Unwrap(HeaderOf(DataPdus(output[k])[i - 1]).message_id) + 1

\* the post-boundary entries of the stack the call c resolved
PostOf(c) == split_encs(c.full_encs).post

\* the fragment the H step wrapped into the data PDU pdu of the call c
FragmentOf(c, pdu) ==
  IF PostOf(c) = <<Crc32>> THEN AllButLast(Tail(pdu)) ELSE Tail(pdu)

\* the media type the packed header carries when generate was given media
\* (pack leaves out the content format 0)
MediaOnWire(media) ==
  IF IsSome(media) /\ canonicalize(Unwrap(media)) # <<"Format", 0>>
  THEN Some(canonicalize(Unwrap(media))) ELSE None

HCount(l) == Cardinality({i \in 1..Len(l) : IsH(l[i])})

\* the list l without its entry i
Without(l, i) == SubSeq(l, 1, i - 1) \o SubSeq(l, i + 1, Len(l))

\* in the configured list encs a chunk(n) comes before the first H (before
\* the end when there is no H)
ChunkBeforeH(encs) ==
  \E i \in 1..Len(encs) :
    IsChunk(encs[i]) /\ \A j \in 1..i : ~IsH(encs[j])

\* the list r is the list base with chunk(n) put immediately before the
\* first H
ChunkInserted(r, base, n) ==
  /\ HPos(r) > 1
  /\ r[HPos(r) - 1] = Chunk(n)
  /\ Without(r, HPos(r) - 1) = base

\* what resolve_encodings does to the H entries and to the chunk, given that
\* the H entries are counted by the predicate one_h
Normalized(one_h(_, _)) ==
  IsSome(output) =>
    LET encs == input.encodings
        r == Unwrap(output)
        base == IF HCount(encs) = 0 THEN Append(encs, H) ELSE encs
    IN /\ one_h(r, encs)
       /\ IF IsSome(input.max_payload_size) /\ ~ChunkBeforeH(encs)
          THEN ChunkInserted(r, base, Unwrap(input.max_payload_size))
          ELSE r = base

\* C18 (as claimed): for every configured list the stack returned by
\* resolve_encodings has exactly one H; with max_payload_size set and no
\* chunk(n) before H, chunk(max_payload_size) is put immediately before H
\* and the other entries keep their order.
C18_AsClaimed == Normalized(LAMBDA r, encs : HCount(r) = 1)

\* C18 (amended): the stack returned has the H entries of the configured
\* list, and one appended H when it has none: exactly one H when the
\* configured list has at most one. The chunk is inserted as claimed, before
\* the first H, and nothing else changes.
C18_Resolve == Normalized(LAMBDA r, encs : HCount(r) = Max(1, HCount(encs)))

\* [gzip, crc32] with max_payload_size 2 became [gzip, crc32, chunk(2), H]
C18_Witness ==
  /\ IsSome(output)
  /\ input.encodings = <<Gzip, Crc32>> /\ input.max_payload_size = Some(2)
  /\ Unwrap(output) = <<Gzip, Crc32, Chunk(2), H>>

\* the PDU is an announcement PDU: its media type is application/vnd.hqfbp+cbor
IsAnnouncement(pdu) == HeaderOf(pdu).content_type = Some(AnnType)

\* the payload of the PDU is one CBOR Header
CarriesHeader(pdu) == Len(Tail(pdu)) = 1 /\ Tail(pdu)[1].t = "hdr"

\* the configured stack of generator g has a dynamic codec entry
HasDynamic(g) ==
  \E i \in 1..Len(g.encodings) : g.encodings[i][1] \in {"rq_dyn", "rq_dyn_pct", "lt_dyn"}

\* C19: when an announcement stack is configured, the first announcement PDU
\* carries the Message-Id a the counter had before the call and the first
\* data PDU carries a+1; the payload of every announcement PDU is one CBOR
\* Header whose message_id is a+1 and whose content_encoding is the resolved
\* data stack as CBOR writes it (chunk(n) entries stripped); and the PDUs
\* that carry the announcement, those with the announcement media type among
\* them, come before the data PDUs in the list returned.
C19_Announcement ==
  \A k \in 1..Len(output) :
    LET c == output[k]
        g == gens["S1"]
    IN IsSome(g.announcement) =>
         /\ c.n_ann >= 1
         /\ HeaderOf(c.pdus[1]).message_id = Some(c.before)
         /\ DataPdus(c) # <<>> => HeaderOf(DataPdus(c)[1]).message_id = Some(c.before + 1)
         /\ \A i \in 1..c.n_ann :
              LET body == Tail(c.pdus[i])
              IN /\ Len(body) = 1 /\ body[1].t = "hdr"
                 /\ body[1].v.message_id = Some(c.before + 1)
                 /\ body[1].v.content_encoding = Some(EncodingListWire(c.full_encs))
                 /\ ~HasDynamic(g) => c.full_encs = resolve_encodings(g)
         /\ IsAnnouncement(c.pdus[1])
         /\ \A i, j \in 1..Len(c.pdus) :
              (CarriesHeader(c.pdus[i]) \/ IsAnnouncement(c.pdus[i])) /\ j < i
                => CarriesHeader(c.pdus[j])
         /\ \A i \in 1..Len(DataPdus(c)) :
              ~CarriesHeader(DataPdus(c)[i]) /\ ~IsAnnouncement(DataPdus(c)[i])

\* a call with max_payload 1, stack [H, crc32] and announcement stack [H] on
\* two bytes returned one announcement PDU and two data PDUs
C19_Witness ==
  /\ Len(output) >= 1
  /\ gens["S1"].announcement = Some(<<H>>)
  /\ gens["S1"].max_payload_size = Some(1)
  /\ output[1].n_ann = 1 /\ Len(output[1].pdus) = 3
  /\ IsAnnouncement(output[1].pdus[1])
  /\ ~IsAnnouncement(output[1].pdus[2])

\* the entry is a dynamic codec entry (a dlen entry)
IsDynamic(e) == e[1] \in {"rq_dyn", "rq_dyn_pct", "lt_dyn"}

\* the Content-Encoding l has no dynamic entry, and has a static erasure
\* code entry with the length len
ResolvedFor(l, len) ==
  /\ \A j \in 1..Len(l) : ~IsDynamic(l[j])
  /\ \E j \in 1..Len(l) : l[j][1] \in {"rq", "lt"} /\ l[j][2] = len

\* the length of the fragment the erasure code processed to make the data PDU
\* pdu: that of the object its packet was cut from
ProcessedLen(pdu) == Len(Tail(pdu)[1].v[1])

\* C20 (as claimed): after generate with a dynamic codec before H, the
\* Content-Encoding of every data PDU header has the static entry with the
\* length of the fragment the codec processed in place of the dynamic entry,
\* and no dynamic entry; the announcement body has no dynamic entry either
\* and carries the Content-Encoding of the data PDU headers.
C20_AsClaimed ==
  \A k \in 1..Len(output) :
    LET c == output[k]
    IN HasDynamic(gens["S1"]) =>
         /\ \A i \in 1..Len(DataPdus(c)) :
              ResolvedFor(Unwrap(HeaderOf(DataPdus(c)[i]).content_encoding),
                          ProcessedLen(DataPdus(c)[i]))
         /\ \A i \in 1..c.n_ann :
              /\ \A j \in 1..Len(Unwrap(Tail(c.pdus[i])[1].v.content_encoding)) :
                   ~IsDynamic(Unwrap(Tail(c.pdus[i])[1].v.content_encoding)[j])
              /\ Tail(c.pdus[i])[1].v.content_encoding
                   = HeaderOf(DataPdus(c)[1]).content_encoding

\* the list l without its chunk(n) entries
NoChunks(l) == SelectSeq(l, LAMBDA e : ~IsChunk(e))

\* C23 (as claimed): for every encoding list with at least one non-chunk
\* entry, decoding its CBOR encoding yields the same list in the same order
\* with only the chunk(n) entries removed: OtherString and OtherInteger
\* entries come back with their label and variant.
C23_AsClaimed ==
  IsSome(output) /\ NoChunks(input) # <<>> => Unwrap(output) = NoChunks(input)

\* the header h with its Content-Type replaced by the Content-Format it maps
\* to, when it maps to one
TypeToFormat(h) ==
  IF IsSome(h.content_type) /\ IsSome(get_coap_id(Unwrap(h.content_type)))
  THEN [h EXCEPT !.content_format = get_coap_id(Unwrap(h.content_type)),
                 !.content_type = None]
  ELSE h

\* the header h without a Content-Format 0
DropFormat0(h) == IF h.content_format = Some(0) THEN [h EXCEPT !.content_format = None] ELSE h

\* the header unpack(pack(h, body)) returns if the only changes are those of
\* the claim
CanonClaimed(h, body) ==
  [DropFormat0(TypeToFormat(h)) EXCEPT !.payload_size = Some(Len(body))]

\* an encoding list as it is read back: without chunk(n) entries, [identity]
\* when nothing is left, OtherInteger(127) as OtherString("127")
ReadBack(l) ==
  IF NoChunks(l) = <<>> THEN <<Identity>>
  ELSE [i \in 1..Len(NoChunks(l)) |->
          IF NoChunks(l)[i] = OtherInteger(NoId) THEN OtherString("127")
          ELSE NoChunks(l)[i]]

\* the header unpack(pack(h, body)) returns
CanonAmended(h, body) ==
  LET h1 == IF IsSome(h.content_format) THEN [h EXCEPT !.content_type = None]
            ELSE TypeToFormat(h)
  IN [DropFormat0(h1) EXCEPT
        !.payload_size = Some(Len(body)),
        !.content_encoding = IF IsSome(h.content_encoding)
                             THEN Some(ReadBack(Unwrap(h.content_encoding))) ELSE None]

\* unpack(pack(h, body)) returned the body and the header canon(h, body)
RoundTrip(canon(_, _)) ==
  Len(output) = 2 =>
    /\ output[2].r.ok
    /\ output[2].r.p = input.body
    /\ output[2].r.h = canon(input.h, input.body)

CombinedBy(k, esi) == IF esi < k THEN {esi} ELSE lt_neighbors(k, esi)

\* the blocks that occur in an odd number of the packets S
RECURSIVE OddBlocks(_, _)
OddBlocks(k, S) ==
  IF S = {} THEN {}
  ELSE LET e == CHOOSE e \in S : TRUE
           rest == OddBlocks(k, S \ {e})
       IN (rest \ CombinedBy(k, e)) \cup (CombinedBy(k, e) \ rest)

\* the packets with the ESIs S of an object of k blocks are linearly
\* independent over GF(2)
Independent(k, S) == \A T \in (SUBSET S) \ {{}} : OddBlocks(k, T) # {}

\* C24 (as claimed): for LT coding of L bytes into K = ceil(L / mtu) source
\* blocks plus R repair packets, feeding the decoder any K linearly
\* independent packets out of the K + R makes decoding succeed and return
\* exactly the original L bytes.
C24_AsClaimed ==
  (IsSome(output) /\ Independent(Len(input.data), {i - 1 : i \in input.sel}))
    => Unwrap(output) = Ok(input.data, 10)

\* C25 (as claimed): for every 12-bit data word d and every 24-bit error
\* pattern e with at most 3 bits set, decode_codeword(encode_codeword(d) ^ e)
\* returns d together with the number of set bits of e.
C25_AsClaimed ==
  IsSome(output) => Unwrap(output) = <<input.data, Cardinality(input.e)>>

\* C26: for every non-empty input I and every single bit position of
\* conv_encode(I), flush and padding bits included, conv_decode of the
\* encoding with that bit flipped returns exactly I.
C26_SingleBit ==
  IsSome(output) => Unwrap(output)[1] = input.data

\* two bytes came back after the last padding bit of their 6-byte encoding
\* was flipped
C26_Witness ==
  /\ IsSome(output)
  /\ input.data = <<B(\hA5), B(\hFF)>> /\ input.pos = 47
  /\ Unwrap(output)[1] = input.data

\* C27: the scrambler is self-inverse: for every byte string d, polynomial
\* mask p and optional seed s, scr_xor(scr_xor(d, p, s), p, s) = d, and the
\* output always has the length of the input.
C27_SelfInverse ==
  /\ \A i \in 1..Len(output) : Len(output[i]) = Len(input.data)
  /\ Len(output) = 2 => output[2] = input.data

\* two bytes were changed by the transform with a seed and came back
C27_Witness ==
  /\ Len(output) = 2
  /\ Len(input.data) = 2 /\ IsSome(input.seed)
  /\ output[1] # input.data
  /\ output[2] = input.data

IsRs(e) == e[1] = "rs"
IsFountain(e) == e[1] \in {"rq", "rq_dyn", "rq_dyn_pct", "lt", "lt_dyn"}
FountainMtu(e) == IF e[1] \in {"rq", "lt"} THEN e[3] ELSE e[2]

C29_AsClaimed == Len(d.not_yet_decoded) <= HoldCap

\* the last call was a receive_bytes whose packet Phase 1 did not decode
InPhase2 ==
  /\ last.op = "receive"
  /\ ~d.panicked
  /\ phase1(last.pre, last.bytes) = None

\* an attempt of Phase 2 succeeded: process_pdu ran during the last call
Reclaimed == d.processed # <<>>

\* the packet was held as the last element and no event was emitted
HeldLast ==
  /\ d.not_yet_decoded = Append(last.pre.not_yet_decoded, last.bytes)
  /\ d.events = last.pre.events

CarriedPdu == IF last.bytes[1].t = "gz" THEN last.bytes[1].v ELSE last.bytes

\* the last call was given a PDU whose Payload-Size is not the length of its
\* body, as it is or as the candidate recovered by Phase 2
SizeDisagrees ==
  /\ last.op = "receive"
  /\ last.bytes \in SizePackets \ {Ann(5, <<H, Gzip>>)}
  /\ IsSome(unpack(CarriedPdu).h.payload_size)
  /\ Unwrap(unpack(CarriedPdu).h.payload_size) # Len(unpack(CarriedPdu).p)

\* C31 as stated: a candidate decode whose recovered header has a
\* Payload-Size different from the length of the recovered body is
\* rejected: it produces no PDU event and changes no session.
C31_AsClaimed ==
  SizeDisagrees => d.events = last.pre.events /\ d.sessions = last.pre.sessions

\* the header and body peeked from the last packet
Peeked == unpack(last.bytes)

\* the deframer the last call started from
Before == [last.pre EXCEPT !.processed = <<>>]

\* the key (peeked Src, peeked Original-Message-Id or else Message-Id)
PeekedKey ==
  <<Peeked.h.src_callsign,
    UnwrapOr(OrElse(Peeked.h.original_message_id, Peeked.h.message_id), 0)>>

HasEntry ==
  /\ IsSome(OrElse(Peeked.h.original_message_id, Peeked.h.message_id))
  /\ PeekedKey \in DOMAIN last.pre.announcements

\* what decoding the last packet with stack gives: Some(<<header, payload,
\* quality>>) or None
DecodedWith(stack) ==
  LET r == apply_decodings(last.bytes, split_encs(stack).post)
      c == IF r.ok THEN candidate(r.data) ELSE [ok |-> FALSE]
  IN IF c.ok THEN Some(<<c.h, c.p, r.q + c.q>>) ELSE None

\* the outcome of Phase 1 by the rule of the claim
Phase1Rule ==
  IF HasEntry THEN DecodedWith(last.pre.announcements[PeekedKey])
  ELSE IF IsSome(Peeked.h.content_encoding)
  THEN DecodedWith(Unwrap(Peeked.h.content_encoding))
  ELSE Some(<<Peeked.h, Peeked.p, 0>>)

\* C32: in Phase 1, when the announcement table has an entry for (peeked
\* Src, peeked Original-Message-Id or else Message-Id), the packet is
\* decoded with that entry's stack; the peeked header's own
\* Content-Encoding is used only when there is no such entry; when neither
\* exists the peeked header and body are accepted as they are.
C32_Phase1Stack ==
  (last.op = "receive" /\ Peeked.ok) =>
    /\ phase1(Before, last.bytes) = Phase1Rule
    /\ IsSome(Phase1Rule) =>
         [d EXCEPT !.processed = <<>>]
           = [process_pdu(Before, Unwrap(Phase1Rule)[1], Unwrap(Phase1Rule)[2],
                          Unwrap(Phase1Rule)[3]) EXCEPT !.processed = <<>>]

\* a PDU whose own stack does not decode it was decoded with the announced
\* stack of its key and accepted
C32_Witness ==
  /\ last.op = "receive" /\ Peeked.ok /\ HasEntry
  /\ IsSome(Peeked.h.content_encoding)
  /\ DecodedWith(Unwrap(Peeked.h.content_encoding)) = None
  /\ IsSome(Phase1Rule)
  /\ last.n_pdu = 1

\* ---- C33 ----
\* the session keys with a fragment processed since reassembly last ran for
\* them
OpenKeys == {x[1] : x \in DOMAIN best}

\* the Chunk-Ids processed for key since reassembly last ran for it
OpenChunks(key) == {x[2] : x \in {y \in DOMAIN best : y[1] = key}}

\* the process_pdu calls of the last receive_bytes call that ran reassembly
Reassembled == {i \in 1..Len(d.processed) : d.processed[i].complete}

\* C33: the session map holds exactly the keys for which a fragment was
\* accepted since reassembly last ran for the key, each session holding
\* exactly the Chunk-Ids accepted since then; a key whose reassembly ran is
\* absent afterwards, with or without a Message event
C33_SessionLife ==
  ~d.panicked =>
    /\ DOMAIN d.sessions = OpenKeys
    /\ \A key \in DOMAIN d.sessions : DOMAIN d.sessions[key].chunks = OpenChunks(key)
    /\ last.op = "receive" =>
         \A i \in Reassembled :
           (\A j \in i+1..Len(d.processed) : d.processed[j].key # d.processed[i].key)
             => d.processed[i].key \notin DOMAIN d.sessions

\* reassembly ran for a session of two fragments and failed: no Message
\* event, and the session is gone
C33_Witness ==
  /\ last.op = "receive" /\ ~d.panicked
  /\ last.n_msg = 0
  /\ \E i \in Reassembled :
       /\ d.processed[i].key \in DOMAIN last.pre.sessions
       /\ d.processed[i].key \notin DOMAIN d.sessions

\* ---- C34 ----
\* the positions of the air that hold a data PDU, fed or not
DataOnAir == {i \in 1..Len(air) : ~is_ann(HeaderOf(air[i].bytes))}

\* the data PDUs fed to the deframer
DataFed == {i \in DataOnAir : air[i].fed}

\* a message sent with a post-boundary repeat(n) goes out as n identical
\* PDUs, and once any single one of them was received exactly one Message
\* event was produced, with the payload sent (with the payload of the inner
\* PDU when the payload sent is itself a PDU)
OneCopy ==
  /\ \A i, j \in DataOnAir : air[i].bytes = air[j].bytes
  /\ sent["S1"] # None =>
       Cardinality(DataOnAir) = gens["S1"].encodings[Len(gens["S1"].encodings)][2]
  /\ Cardinality(DataFed) = 1 =>
       /\ Len(Messages) = 1
       /\ \A i \in 1..Len(Messages) :
            Messages[i].payload = IF unpack(Unwrap(sent["S1"])).ok
                                  THEN unpack(Unwrap(sent["S1"])).p
                                  ELSE Unwrap(sent["S1"])

\* the receiver does what OneCopy says whenever the payload sent is not empty
OneCopyNonEmpty == (sent["S1"] # None /\ Unwrap(sent["S1"]) # <<>>) => OneCopy

\* C34 (as claimed): for a message sent with a post-boundary repeat(n) that
\* fits in one PDU, receiving any single one of the n identical PDUs is
\* sufficient for the Message event.
C34_AsClaimed == Cardinality(DataFed) = 1 => Len(Messages) = 1

\* ---- C35 ----
\* C35: whatever packets of the LT encoder the decoder was fed (any subset,
\* any order, duplicates), every source block it has recorded is the true
\* source block, and get_result returns a result exactly when all K blocks
\* are recorded, the result being the original data (blocks 0..K-1
\* concatenated and truncated to L); decode returns true exactly then
C35_LtDecoder ==
  /\ \A idx \in DOMAIN output.st.blocks :
       /\ idx \in 0..(output.st.k - 1)
       /\ output.st.blocks[idx] = lt_blocks(input.data, input.mtu)[idx + 1]
  /\ LTDecoder_get_result(output.st)
       = (IF DOMAIN output.st.blocks = 0..(output.st.k - 1) THEN Some(input.data) ELSE None)
  /\ output.fed > 0 => (output.ret <=> IsSome(LTDecoder_get_result(output.st)))

\* 5 bytes in 3 blocks of 2 bytes: a repair packet that had waited with two
\* unknown blocks was released by the last packet, and the result is the 5
\* bytes
C35_Witness ==
  /\ Len(input.data) = 5 /\ input.mtu = 2
  /\ input.data[5] # B(0)
  /\ output.fed = 3 /\ output.esi < 3
  /\ output.held = 1 /\ output.st.graph = <<>>
  /\ LTDecoder_get_result(output.st) = Some(input.data)

\* ---- C36 ----
\* C36 (as claimed): receive_bytes returns normally, without panicking, for
\* every input byte string in every reachable deframer state.
C36_AsClaimed == ~d.panicked

\* ---- C37 ----
\* C37 (as claimed): when Header.merge returns an error, the receiving header
\* is left exactly as it was before the call.
C37_AsClaimed ==
  (IsSome(output) /\ ~Unwrap(output).ok) => Unwrap(output).h = input[1]

\* ---- C38 ----
\* C38 (as claimed): generate terminates for every payload (the empty one
\* included), every stack and every max_payload_size (chunk size 0
\* included), and on success returns at least one data PDU.
C38_AsClaimed ==
  \A k \in 1..Len(output) :
    /\ ~output[k].diverges
    /\ Len(DataPdus(output[k])) >= 1

====
